---- MODULE Spec2Model ----
(***************************************************************************)
(* A model of addrnorm: the value cleaner, the validator with its          *)
(* process-lifetime locality cache, the chunked CSV writer, the concurrent *)
(* address extraction of a batch and the per-row transformation pipeline.  *)
(*                                                                         *)
(* Text is modelled as a sequence of characters, each character a string   *)
(* of the module.  Three characters outside ASCII are written as tokens:   *)
(*   "a'"  U+00E1 (a with acute),  "A'"  U+00C1,                           *)
(*   "n^"  U+FF4E (fullwidth n),   "em"  U+2014 (em dash).                 *)
(* Python's None and the empty string both print as an empty CSV cell and  *)
(* are both falsy; both are the empty sequence here.                       *)
(***************************************************************************)
EXTENDS Integers, Sequences, FiniteSets, TLC

VARIABLES
    \* --- value cleaner (rules/clean.py) ---
    cv_pc,          \* "start" | "once" | "twice"
    cv_value,       \* the raw input scalar
    cv_once,        \* clean_value(value)
    cv_twice,       \* clean_value(clean_value(value))
    \* --- validator (rules/validate.py) and the VALIDATE stage ---
    gc_cities,      \* the GeoNames reference: cities in the reference's order
    locality_validate_cache,   \* _locality_validate_cache: <<alpha2, key>> -> name
    ctx_validate,   \* ctx.validate of the running job: "off" | "loose" | "strict"
    ctx_fuzzy_threshold,       \* ctx.fuzzy_threshold of the running job
    zip_format_fail,           \* report_data["conflicts"]["zip_format_fail"]
    v_call,         \* the last VALIDATE step: its inputs, outputs and flags
    v_ledger,       \* history: (threshold, accepted) of the loose calls on the probe
    \* --- the batch loop of run_job and the CSV writer (utils/io_utils.py) ---
    j_pc,           \* "start" | "loop" | "done"
    j_rows,         \* the number of data rows of the input file
    j_chunksize,    \* ctx.chunksize
    processed_rows, \* ctx.processed_rows
    header_written, \* the local of run_job
    out_file,       \* the output file: does it exist, and its lines
    j_batches,      \* history: the number of batches written
    \* --- the EXTRACT stage of a batch (pipeline.py, parsers/address_extract.py) ---
    x_pc,           \* "start" | "pool" | "seq" | "joined"
    x_rows,         \* the address column of the batch, row by row
    x_concurrency,  \* ctx.concurrency
    x_service,      \* the parsing service: address text -> its reply
    to_parse,       \* the queue of (idx, address)
    x_next,         \* the position in to_parse of the next item no worker has taken
    x_worker,       \* per pool thread: where it is, the task and the session it holds
    _session,       \* the module-level session of address_extract.py, None at import
    x_futures,      \* per queue position: the result of the task, Pending until done
    x_collected,    \* the number of results the main thread has consumed
    parsed_map,     \* idx -> parsed result
    x_disorder,     \* history: a task has finished before an earlier one
    x_applied,      \* the number of rows the loop that applies the results has passed
    x_records,      \* per row: the parsed result its record was updated with
    \* --- one row through the stages of run_job (pipeline.py) ---
    r_pc,           \* the stage the row is about to enter, "done" once written
    r_cfg,          \* the options of the job and the reply of the parsing service
    r_in,           \* history: the row as read from the input file
    r_row,          \* the row in the data frame
    r_flags,        \* the flags of the row's validation
    r_runs,         \* the number of rows the process has taken up
    r_applied,      \* history: the row before EXTRACT and the parsed address used
    \* --- the CSV reader (utils/io_utils.py: read_csv_chunks) ---
    rd_pc,          \* "open" | "rows" | "done"
    rd_file,        \* the lines of the input file as csv.reader yields them
    rd_chunksize,   \* the chunksize argument
    rd_header,      \* the local header
    rd_pos,         \* the number of lines the reader has consumed
    rd_buf,         \* the local buf
    rd_batches,     \* history: the data frames yielded so far, each its records
    \* --- the resolution of one address (parsers/address_extract.py) ---
    q_pc,           \* "start" | "primary" | "alt" | "finish" | "done"
    q_address,      \* the address argument
    q_url,          \* the libpostal_url argument, None if there is none
    q_primary,      \* what the service does with the request to the URL
    q_alt,          \* what the service does with the request to the alternate URL
    q_calls,        \* history: the URLs posted to, in order
    q_last,         \* history: the last thing the service did, None before any request
    q_parsed,       \* the local parsed of extract_from_address
    q_result,       \* the value extract_from_address returns
    \* --- the rule set of one job (pipeline.py: _load_profiles, run_job) ---
    m_pc,           \* "profiles" | "rules" | "done"
    m_profiles,     \* the documents of ctx.profiles, in order
    m_user_rules,   \* what _load_user_rules returns
    m_next,         \* the index of the next profile
    prof,           \* the merged dict: merged in _load_profiles, then prof in run_job
    \* --- the samples of one job (utils/loggingx.py) ---
    s_pc,           \* "collect" | "flushed"
    s_column,       \* the column the calls of this job are about
    samples,        \* ctx.samples: column -> category -> examples, empty at first
    s_doc,          \* the examples flush_samples writes per column, NoFile before
    \* --- the report of one job (utils/report.py) ---
    report_data,    \* ctx.report_data["counters"]: field -> counter -> number
    rp_before,      \* history: the counters before the last update_report
    rp_calls        \* the number of update_report calls so far

cleanVars == <<cv_pc, cv_value, cv_once, cv_twice>>
valVars == <<gc_cities, locality_validate_cache, ctx_validate, ctx_fuzzy_threshold,
             zip_format_fail, v_call, v_ledger>>
jobVars == <<j_pc, j_rows, j_chunksize, processed_rows, header_written, out_file, j_batches>>
exVars == <<x_pc, x_rows, x_concurrency, x_service, to_parse, x_next, x_worker, _session,
            x_futures, x_collected, parsed_map, x_disorder, x_applied, x_records>>
rowVars == <<r_pc, r_cfg, r_in, r_row, r_flags, r_runs, r_applied>>
readVars == <<rd_pc, rd_file, rd_chunksize, rd_header, rd_pos, rd_buf, rd_batches>>
resolveVars == <<q_pc, q_address, q_url, q_primary, q_alt, q_calls, q_last, q_parsed, q_result>>
mergeVars == <<m_pc, m_profiles, m_user_rules, m_next, prof>>
sampleVars == <<s_pc, s_column, samples, s_doc>>
reportVars == <<report_data, rp_before, rp_calls>>
vars == <<cleanVars, valVars, jobVars, exVars, rowVars, readVars, resolveVars, mergeVars, sampleVars, reportVars>>

----------------------------------------------------------------------------
(* Characters and Python's str / re / unidecode primitives                 *)

None == <<>>

Lowers == <<"a","b","c","d","e","f","g","h","i","j","k","l","m",
            "n","o","p","q","r","s","t","u","v","w","x","y","z">>
Uppers == <<"A","B","C","D","E","F","G","H","I","J","K","L","M",
            "N","O","P","Q","R","S","T","U","V","W","X","Y","Z">>
Digits == {"0","1","2","3","4","5","6","7","8","9"}

Range(s) == {s[i] : i \in DOMAIN s}
AsciiLower == Range(Lowers)
AsciiUpper == Range(Uppers)
AsciiLetters == AsciiLower \cup AsciiUpper

PosIn(c, s) == CHOOSE i \in DOMAIN s : s[i] = c

\* str.lower() of one character
LowerChar(c) ==
    IF c \in AsciiUpper THEN Lowers[PosIn(c, Uppers)]
    ELSE IF c = "A'" THEN "a'" ELSE c

\* str.upper() of one character
UpperChar(c) ==
    IF c \in AsciiLower THEN Uppers[PosIn(c, Lowers)]
    ELSE IF c = "a'" THEN "A'"
    ELSE IF c = "n^" THEN "N^" ELSE c

\* unidecode() of one character (ASCII transliteration)
UnidecodeChar(c) ==
    CASE c = "a'" -> "a"
      [] c = "A'" -> "A"
      [] c = "n^" -> "n"
      [] c = "em" -> "-"
      [] OTHER -> c

\* unicodedata.normalize("NFKC", .) of one character
NFKCChar(c) == IF c = "n^" THEN "n" ELSE c

IsSpace(c) == c \in {" ", "\t"}
IsDigit(c) == c \in Digits
IsAlpha(c) == c \in AsciiLetters \cup {"a'", "A'", "n^"}
IsAlnum(c) == IsAlpha(c) \/ IsDigit(c)
Whitespace == {" ", "\t"}

lower(s) == [i \in 1..Len(s) |-> LowerChar(s[i])]
upper(s) == [i \in 1..Len(s) |-> UpperChar(s[i])]
unidecode(s) == [i \in 1..Len(s) |-> UnidecodeChar(s[i])]
NFKC(s) == [i \in 1..Len(s) |-> NFKCChar(s[i])]

\* s with the leading and the trailing run of characters of C removed
StripSet(s, C) ==
    LET keep == {i \in 1..Len(s) : s[i] \notin C} IN
    IF keep = {} THEN <<>>
    ELSE SubSeq(s, CHOOSE i \in keep : \A j \in keep : i <= j,
                   CHOOSE i \in keep : \A j \in keep : j <= i)

\* str.strip()
strip(s) == StripSet(s, Whitespace)

MinOf(S) == CHOOSE x \in S : \A y \in S : x <= y
MaxOf(S) == CHOOSE x \in S : \A y \in S : y <= x
NthOf(S, n) == CHOOSE x \in S : Cardinality({y \in S : y < x}) = n - 1

\* the maximal runs of s without a character of C, in order: re.split on runs
\* of C with the empty pieces dropped, str.split() for C = whitespace
RunStarts(s, C) == {i \in 1..Len(s) : s[i] \notin C /\ (i = 1 \/ s[i - 1] \in C)}
RunEnd(s, i, C) == MaxOf({j \in i..Len(s) : \A k \in i..j : s[k] \notin C})
RunsOf(s, C) ==
    [n \in 1..Cardinality(RunStarts(s, C)) |->
        SubSeq(s, NthOf(RunStarts(s, C), n), RunEnd(s, NthOf(RunStarts(s, C), n), C))]

\* sep.join(words)
RECURSIVE Join(_, _)
Join(words, sep) ==
    IF words = <<>> THEN <<>>
    ELSE IF Len(words) = 1 THEN words[1]
    ELSE words[1] \o sep \o Join(Tail(words), sep)

\* re.sub(r"\s+", " ", s): every run of whitespace becomes one space
RECURSIVE CollapseWs(_)
CollapseWs(s) ==
    IF s = <<>> THEN <<>>
    ELSE IF IsSpace(s[1])
         THEN IF Len(s) >= 2 /\ IsSpace(s[2]) THEN CollapseWs(Tail(s))
              ELSE <<" ">> \o CollapseWs(Tail(s))
         ELSE <<s[1]>> \o CollapseWs(Tail(s))

\* All sequences over A of length up to n
RECURSIVE SeqsUpTo(_, _)
SeqsUpTo(A, n) ==
    IF n = 0 THEN {<<>>}
    ELSE LET shorter == SeqsUpTo(A, n - 1) IN
         shorter \cup {Append(s, c) : s \in {t \in shorter : Len(t) = n - 1}, c \in A}

----------------------------------------------------------------------------
(* rules/clean.py: clean_value                                             *)

null_tokens == {
    <<"n","a","n">>, <<"n","o","n","e">>, <<"n","u","l","l">>, <<"n","a">>,
    <<"n","/","a">>, <<"n",".","a",".">>, <<"n",".","a">>, <<"n"," ","a">>,
    <<"-">>, <<"em">>,
    <<"n","o","t"," ","a","v","a","i","l","a","b","l","e">>,
    <<"n","o","t"," ","a","p","p","l","i","c","a","b","l","e">>,
    <<"u","n","k","n","o","w","n">> }

\* _PUNCT_EDGE_RE = ^[\s,;/\-_.]+|[\s,;/\-_.]+$
PunctEdge == Whitespace \cup {",", ";", "/", "-", "_", "."}

clean_value(value) ==
    LET s == strip(value) IN
    IF s = <<>> \/ lower(s) \in null_tokens THEN None
    ELSE strip(StripSet(CollapseWs(NFKC(s)), PunctEdge))

\* Bounds of the cleaner's inputs
MaxCleanLen == 4
CleanAlphabet == {"n", "a", "N", " ", "-", "n^"}

CleanInit ==
    /\ cv_pc = "start"
    /\ cv_value \in SeqsUpTo(CleanAlphabet, MaxCleanLen)
    /\ cv_once = None
    /\ cv_twice = None

CleanIdle ==
    /\ cv_pc = "idle" /\ cv_value = None /\ cv_once = None /\ cv_twice = None


----------------------------------------------------------------------------
(* Reference data and configuration used by the model                      *)

S_Thailand == <<"T","h","a","i","l","a","n","d">>
S_Canada   == <<"C","a","n","a","d","a">>
S_Brazil   == <<"B","r","a","z","i","l">>
S_Bangkok  == <<"B","a","n","g","k","o","k">>
S_Bangkog  == <<"B","a","n","g","k","o","g">>
S_BangkogAcute == <<"B","a'","n","g","k","o","g">>
S_BangBo   == <<"B","a","n","g"," ","B","o">>
S_KrungThep == <<"K","r","u","n","g"," ","T","h","e","p">>
S_Chonburi == <<"C","h","o","n","b","u","r","i">>
S_Chonbur  == <<"C","h","o","n","b","u","r">>
S_10110    == <<"1","0","1","1","0">>
S_101101   == <<"1","0","1","1","0","1">>
S_PHAYATHAI2 == <<"P","H","A","Y","A","T","H","A","I","2">>
S_k1a      == <<"k","1","a">>
S_12345    == <<"1","2","3","4","5">>
A2_TH == <<"T","H">>
A2_CA == <<"C","A">>
A2_BR == <<"B","R">>
A2_VN == <<"V","N">>
S_VietNam == <<"V","i","e","t"," ","N","a","m">>
S_Vietnam == <<"V","i","e","t","n","a","m">>
S_KoSamui == <<"K","o"," ","S","a","m","u","i">>
S_84140 == <<"8","4","1","4","0">>
S_Soi9 == <<"S","o","i"," ","9">>
S_ChonBuri == <<"C", "h", "o", "n", " ", "B", "u", "r", "i">>
S_Scenario2 == <<"7", "7", "/", "1", ",", " ", "S", "u", "k", "h", "u", "m", "v", "i", "t", " ", "R", "o", "a", "d", ",", " ", "B", "a", "n", "g", "k", "o", "k", ",", " ", "1", "0", "1", "1", "0", ",", " ", "T", "h", "a", "i", "l", "a", "n", "d">>

\* pycountry's country table, the rows the model uses; None: the record has
\* no such attribute
Country(name, alpha_2, alpha_3, official_name, common_name) ==
    [name |-> name, alpha_2 |-> alpha_2, alpha_3 |-> alpha_3,
     official_name |-> official_name, common_name |-> common_name]
Countries == {
    Country(S_Thailand, A2_TH, <<"T","H","A">>,
            <<"K","i","n","g","d","o","m"," ","o","f"," ","T","h","a","i","l","a","n","d">>, None),
    Country(S_Canada, A2_CA, <<"C","A","N">>, None, None),
    Country(S_Brazil, A2_BR, <<"B","R","A">>,
            <<"F","e","d","e","r","a","t","i","v","e"," ","R","e","p","u","b","l","i","c"," ","o","f"," ","B","r","a","z","i","l">>, None),
    Country(S_VietNam, A2_VN, <<"V","N","M">>,
            <<"S","o","c","i","a","l","i","s","t"," ","R","e","p","u","b","l","i","c"," ","o","f"," ","V","i","e","t"," ","N","a","m">>,
            S_Vietnam) }

\* pycountry.countries.lookup(value): the country one of whose fields equals
\* value ignoring case; NoCountry stands for the LookupError
NoCountry == Country(None, None, None, None, None)
CountryFields(c) == {c.name, c.alpha_2, c.alpha_3, c.official_name, c.common_name} \ {None}
lookup(value) ==
    IF value = None \/ \A c \in Countries : \A f \in CountryFields(c) : lower(f) # lower(value)
    THEN NoCountry
    ELSE CHOOSE c \in Countries : \E f \in CountryFields(c) : lower(f) = lower(value)

\* profiles_data["zip_patterns"]: alpha2 -> regex.  A regex of the model is a
\* sequence of atoms: "d" is \d, "U" is [A-Z]; any other atom does not compile.
zip_patterns(alpha2) ==
    CASE alpha2 = A2_TH -> <<"d","d","d","d","d">>
      [] alpha2 = A2_CA -> <<"U","d","U">>
      [] alpha2 = A2_BR -> <<"(">>
      [] OTHER -> None

\* profiles_data["region_lists_by_country"]: alpha2 -> whitelist
region_lists_by_country(alpha2) ==
    IF alpha2 = A2_TH THEN <<S_Chonburi, S_Bangkok>> ELSE <<>>

\* GeoNames city records
City(cc, name, pop, alts) ==
    [countrycode |-> cc, name |-> name, population |-> pop, alternatenames |-> alts]
C_Bangkok == City(A2_TH, S_Bangkok, 5, <<S_KrungThep>>)
C_BangBo  == City(A2_TH, S_BangBo, 1, <<>>)

\* The references the model is run against: every one holds Bangkok
References == { <<C_Bangkok>>, <<C_Bangkok, C_BangBo>>, <<C_BangBo, C_Bangkok>> }

----------------------------------------------------------------------------
(* rules/validate.py                                                       *)

Min(a, b) == IF a <= b THEN a ELSE b
Max(a, b) == IF a >= b THEN a ELSE b
Abs(a) == IF a >= 0 THEN a ELSE 0 - a

StartsWith(s, p) == Len(p) <= Len(s) /\ SubSeq(s, 1, Len(p)) = p
Contains(s, p) == \E i \in 1..(Len(s) - Len(p) + 1) : SubSeq(s, i, i + Len(p) - 1) = p
InSeq(x, s) == \E i \in DOMAIN s : s[i] = x

_norm_key(s) == lower(strip(unidecode(s)))

\* _init_caches: the keys a city record contributes, its name first
CityKeys(info) ==
    IF info.name = None \/ _norm_key(info.name) = None THEN <<>>
    ELSE <<_norm_key(info.name)>> \o
         SelectSeq([i \in 1..Len(info.alternatenames) |-> _norm_key(info.alternatenames[i])],
                   LAMBDA k : k # None)

\* dict insertion: a key already present keeps its place
RECURSIVE AddKeys(_, _)
AddKeys(acc, ks) ==
    IF ks = <<>> THEN acc
    ELSE AddKeys(IF InSeq(Head(ks), acc) THEN acc ELSE Append(acc, Head(ks)), Tail(ks))

\* the keys of _cities_by_country[cc] in insertion order
RECURSIVE PoolKeysFrom(_, _, _, _)
PoolKeysFrom(cities, cc, i, acc) ==
    IF i > Len(cities) THEN acc
    ELSE PoolKeysFrom(cities, cc, i + 1,
                      IF cities[i].countrycode = cc /\ cc # None
                      THEN AddKeys(acc, CityKeys(cities[i])) ELSE acc)
PoolKeys(cities, cc) == PoolKeysFrom(cities, cc, 1, <<>>)

\* _cities_by_country[cc][key]: the most populous record listing the key, the
\* earliest of them on a tie
PoolInfo(cities, cc, key) ==
    LET owners == {i \in 1..Len(cities) :
                      cities[i].countrycode = cc /\ InSeq(key, CityKeys(cities[i]))}
        best == CHOOSE i \in owners : \A j \in owners :
                    \/ cities[j].population < cities[i].population
                    \/ (cities[j].population = cities[i].population /\ i <= j)
    IN cities[best]

\* _city_prefix_index[cc][pref]: the keys of the pool with that two-character prefix
PrefixBucket(pool, pref) ==
    SelectSeq(pool, LAMBDA k : SubSeq(k, 1, Min(2, Len(k))) = pref)

\* the scorer of _fuzzy_candidates (validate.py:94-104)
Score(cand, name_key) ==
    IF cand = name_key THEN 100
    ELSE IF StartsWith(cand, name_key) \/ StartsWith(name_key, cand) THEN 92
    ELSE IF Contains(cand, name_key) \/ Contains(name_key, cand) THEN 88
    ELSE Max(0, 85 - Abs(Len(cand) - Len(name_key)) * 3)

\* list.sort(key=score, reverse=True): stable, highest score first
Rank(cands, i) ==
    1 + Cardinality({j \in 1..Len(cands) :
                        \/ cands[j][2] > cands[i][2]
                        \/ (cands[j][2] = cands[i][2] /\ j < i)})
SortByScoreDesc(cands) ==
    [p \in 1..Len(cands) |-> cands[CHOOSE i \in 1..Len(cands) : Rank(cands, i) = p]]

ScoreKeys(keys, name_key) ==
    [i \in 1..Len(keys) |-> <<keys[i], Score(keys[i], name_key)>>]
KeysIterable(bucket, pool) == IF bucket # <<>> THEN bucket ELSE pool
TopK(cands, top_k) == SubSeq(cands, 1, Min(top_k, Len(cands)))

\* pool: the keys of _cities_by_country[alpha2] in insertion order
_fuzzy_candidates(name_key, pool, top_k, alpha2) ==
    IF name_key = None \/ pool = <<>> THEN <<>>
    ELSE TopK(SortByScoreDesc(
                SelectSeq(ScoreKeys(KeysIterable(IF alpha2 # None
                                                 THEN PrefixBucket(pool, SubSeq(name_key, 1, Min(2, Len(name_key))))
                                                 ELSE <<>>,
                                                 pool),
                                    name_key),
                          LAMBDA c : c[2] >= 80)),
              top_k)

\* re.compile(pat, re.IGNORECASE): does the pattern compile
Compiles(pat) == \A i \in DOMAIN pat : pat[i] \in {"d", "U"}
AtomMatches(atom, c) ==
    \/ atom = "d" /\ IsDigit(c)
    \/ atom = "U" /\ UpperChar(c) \in AsciiUpper
\* rgx.fullmatch(s) under re.IGNORECASE
FullMatch(pat, s) == Len(s) = Len(pat) /\ \A i \in DOMAIN pat : AtomMatches(pat[i], s[i])
\* rgx.match(s): a prefix of s matches
PrefixMatch(pat, s) == Len(s) >= Len(pat) /\ \A i \in DOMAIN pat : AtomMatches(pat[i], s[i])

Result(value, flags) == [value |-> value, flags |-> flags]

\* _validate_zip with rgx.match in the place of rgx.fullmatch
_validate_zip_match(zip_code, alpha2, flags) ==
    IF zip_code = None \/ alpha2 = None \/ zip_patterns(alpha2) = None
    THEN Result(zip_code, flags)
    ELSE IF ~Compiles(zip_patterns(alpha2))
         THEN Result(zip_code, Append(flags, "zip_pattern_error"))
    ELSE IF ~PrefixMatch(zip_patterns(alpha2), strip(zip_code))
         THEN Result(zip_code, Append(flags, "bad_zip_format"))
         ELSE Result(zip_code, flags)

ZipChecked(zip_code, flags, pat) ==
    IF pat = None THEN Result(zip_code, flags)
    ELSE IF ~Compiles(pat) THEN Result(zip_code, Append(flags, "zip_pattern_error"))
    ELSE IF ~FullMatch(pat, strip(zip_code))
         THEN Result(zip_code, Append(flags, "bad_zip_format"))
         ELSE Result(zip_code, flags)

_validate_zip(zip_code, alpha2, flags) ==
    IF zip_code = None \/ alpha2 = None THEN Result(zip_code, flags)
    ELSE ZipChecked(zip_code, flags, zip_patterns(alpha2))

EmptyCache == << >>
CacheGet(cache, k) == IF k \in DOMAIN cache THEN cache[k] ELSE None
CachePut(cache, k, v) == (k :> v) @@ cache

\* the result of _validate_locality and the cache it leaves
LocResult(value, flags, cache) == [value |-> value, flags |-> flags, cache |-> cache]

FlagIf(flags, cond, flag) == IF cond THEN Append(flags, flag) ELSE flags

\* validate.py:153-169: no exact hit and nothing cached
LocalityFuzzy(locality, alpha2, validate, fuzzy_threshold, cities, flags, cache, cache_key, pool, cands) ==
    IF validate = "loose" /\ pool # <<>> /\ cands # <<>> /\ cands[1][2] >= fuzzy_threshold
    THEN LocResult(PoolInfo(cities, alpha2, cands[1][1]).name,
                   FlagIf(flags, PoolInfo(cities, alpha2, cands[1][1]).name # locality,
                          "locality_fuzzy_fixed"),
                   CachePut(cache, cache_key, PoolInfo(cities, alpha2, cands[1][1]).name))
    ELSE LocResult(locality, Append(flags, "city_not_found"),
                   CachePut(cache, cache_key, locality))

\* validate.py:140-151: the exact hit, then the cache
LocalityLookup(locality, alpha2, validate, fuzzy_threshold, cities, flags, cache, key, pool, cached) ==
    IF key = None THEN LocResult(None, flags, cache)
    ELSE IF InSeq(key, pool) THEN LocResult(locality, flags, cache)
    ELSE IF cached # None
         THEN LocResult(cached, FlagIf(flags, cached # locality, "locality_fuzzy_fixed"), cache)
    ELSE LocalityFuzzy(locality, alpha2, validate, fuzzy_threshold, cities, flags, cache,
                       <<alpha2, key>>, pool, _fuzzy_candidates(key, pool, 3, alpha2))

_validate_locality(locality, alpha2, validate, fuzzy_threshold, cities, flags, cache) ==
    IF locality = None THEN LocResult(None, flags, cache)
    ELSE IF validate = "off" THEN LocResult(locality, flags, cache)
    ELSE LocalityLookup(locality, alpha2, validate, fuzzy_threshold, cities, flags, cache,
                        _norm_key(locality),
                        IF alpha2 # None THEN PoolKeys(cities, alpha2) ELSE <<>>,
                        CacheGet(cache, <<alpha2, _norm_key(locality)>>))

\* the whitelist scorer of _validate_region (validate.py:196)
RegionScore(cand, key) ==
    IF StartsWith(cand, key) \/ StartsWith(key, cand) THEN 92
    ELSE IF Contains(key, cand) \/ Contains(cand, key) THEN 88 ELSE 0

WhitelistKeys(whitelist) ==
    {_norm_key(whitelist[i]) : i \in {j \in DOMAIN whitelist : whitelist[j] # None}} \ {None}
BestScore(cands, key) ==
    CHOOSE v \in {RegionScore(c, key) : c \in cands} : \A c \in cands : RegionScore(c, key) <= v
\* the first whitelist entry whose key is best
Orig(whitelist, best) ==
    whitelist[CHOOSE i \in DOMAIN whitelist :
                 /\ _norm_key(whitelist[i]) = best
                 /\ \A j \in 1..(i - 1) : _norm_key(whitelist[j]) # best]

\* validate.py:186-208: the whitelist misses the region
RegionFuzzy(region, validate, fuzzy_threshold, flags, whitelist, key, cands) ==
    IF validate = "loose" /\ cands # {} /\ BestScore(cands, key) >= fuzzy_threshold
    THEN {Result(Orig(whitelist, b),
                 FlagIf(flags, Orig(whitelist, b) # region, "region_fuzzy_fixed"))
          : b \in {c \in cands : RegionScore(c, key) >= fuzzy_threshold
                                 /\ \A d \in cands : RegionScore(d, key) <= RegionScore(c, key)}}
    ELSE {Result(region, Append(flags, "region_not_in_whitelist"))}

RegionLookup(region, validate, fuzzy_threshold, flags, whitelist, key, wl_keys) ==
    IF whitelist = <<>> THEN {Result(region, flags)}
    ELSE IF key \in wl_keys THEN {Result(region, flags)}
    ELSE RegionFuzzy(region, validate, fuzzy_threshold, flags, whitelist, key, wl_keys)

\* _validate_region.  The candidates are iterated as a Python set, in an order
\* the hash seed decides: the results are all the ones some order produces.
_validate_region(region, alpha2, validate, fuzzy_threshold, flags) ==
    IF region = None THEN {Result(None, flags)}
    ELSE IF validate = "off" THEN {Result(region, flags)}
    ELSE RegionLookup(region, validate, fuzzy_threshold, flags,
                      IF alpha2 # None THEN region_lists_by_country(alpha2) ELSE <<>>,
                      _norm_key(region),
                      WhitelistKeys(IF alpha2 # None THEN region_lists_by_country(alpha2) ELSE <<>>))

OUTPUT_COLS == <<"street", "district", "locality", "region", "country", "zip">>

\* validate.py:241-245: the row and the flags returned
Validated(row, validate, z, l, regions) ==
    { [row |-> [row EXCEPT !.zip = IF validate = "strict" /\ InSeq("bad_zip_format", r.flags)
                                   THEN None ELSE z.value,
                           !.locality = l.value,
                           !.region = r.value],
       flags |-> r.flags,
       cache |-> l.cache] : r \in regions }

\* validate_fields(row, ctx): the possible (row, flags) and the cache left.
\* z, l: the results of the zip and of the locality checks (validate.py:236-238)
validate_fields(row, alpha2, validate, fuzzy_threshold, cities, cache) ==
    UNION { UNION { Validated(row, validate, z, l,
                              _validate_region(row.region, alpha2, validate,
                                               fuzzy_threshold, l.flags))
                    : l \in {_validate_locality(row.locality, alpha2, validate,
                                                fuzzy_threshold, cities, z.flags, cache)} }
            : z \in {_validate_zip(row.zip, alpha2, <<>>)} }

----------------------------------------------------------------------------
(* The VALIDATE stage of run_job (pipeline.py:316-341) and the jobs of a    *)
(* process                                                                 *)

Row(street, district, locality, region, country, zip) ==
    [street |-> street, district |-> district, locality |-> locality,
     region |-> region, country |-> country, zip |-> zip]

\* the normalized rows the validator is run on
ValRows == {
    Row(None, None, S_Bangkog,      None,      S_Thailand, S_10110),
    Row(None, None, S_BangkogAcute, S_Bangkog, S_Thailand, S_10110),
    Row(None, None, S_Bangkok,      S_Chonbur, S_Thailand, S_101101),
    Row(None, None, None,           S_Chonburi, S_Thailand, S_PHAYATHAI2),
    Row(None, None, S_Bangkok,      None,      S_Canada,   S_k1a),
    Row(None, None, None,           None,      S_Brazil,   S_12345),
    Row(None, None, S_Bangkog,      None,      None,       S_10110) }

Modes == {"off", "loose", "strict"}
Thresholds == {85, 90}

\* the cap of the zip_format_fail counter
MaxZipFail == 2

NoCall == [active |-> FALSE]

ValInit ==
    /\ gc_cities \in References
    /\ locality_validate_cache = EmptyCache
    /\ ctx_validate \in Modes
    /\ ctx_fuzzy_threshold \in Thresholds
    /\ zip_format_fail = 0
    /\ v_call = NoCall
    /\ v_ledger = {}

ValIdle ==
    /\ gc_cities = <<>>
    /\ locality_validate_cache = EmptyCache
    /\ ctx_validate = "off"
    /\ ctx_fuzzy_threshold = 0
    /\ zip_format_fail = 0
    /\ v_call = NoCall
    /\ v_ledger = {}

\* ctx.current_alpha2 as the VALIDATE stage sets it (pipeline.py:317-325)
current_alpha2(country) == IF country = None THEN None ELSE lookup(country).alpha_2

IsProbe(row) == row.locality = S_Bangkog /\ current_alpha2(row.country) = A2_TH

\* one row through the VALIDATE stage
ValidateRow ==
    \E row \in ValRows :
      LET alpha2 == current_alpha2(row.country) IN
      \E o \in validate_fields(row, alpha2, ctx_validate, ctx_fuzzy_threshold,
                               gc_cities, locality_validate_cache) :
        LET bad == InSeq("bad_zip_format", o.flags) IN
        /\ bad => zip_format_fail < MaxZipFail
        /\ locality_validate_cache' = o.cache
        /\ zip_format_fail' = IF bad THEN zip_format_fail + 1 ELSE zip_format_fail
        /\ v_call' = [active |-> TRUE, row_in |-> row, alpha2 |-> alpha2,
                      validate |-> ctx_validate, fuzzy_threshold |-> ctx_fuzzy_threshold,
                      row_out |-> o.row, flags |-> o.flags,
                      cache_before |-> locality_validate_cache,
                      fail_before |-> zip_format_fail]
        /\ v_ledger' = IF IsProbe(row) /\ ctx_validate = "loose"
                       THEN v_ledger \cup {<<ctx_fuzzy_threshold, o.row.locality # row.locality>>}
                       ELSE v_ledger
        /\ UNCHANGED <<gc_cities, ctx_validate, ctx_fuzzy_threshold>>
        /\ UNCHANGED <<cleanVars, jobVars, exVars, rowVars, readVars, resolveVars, mergeVars, sampleVars, reportVars>>

\* run_job is called again in the same process (app.py): a new Context and a
\* new report, the module-level cache of validate.py kept
NewJob ==
    \E m \in Modes, t \in Thresholds :
        /\ v_call # NoCall
        /\ ctx_validate' = m
        /\ ctx_fuzzy_threshold' = t
        /\ zip_format_fail' = 0
        /\ v_call' = NoCall
        /\ UNCHANGED <<gc_cities, locality_validate_cache, v_ledger>>
        /\ UNCHANGED <<cleanVars, jobVars, exVars, rowVars, readVars, resolveVars, mergeVars, sampleVars, reportVars>>

\* the process ends and a new one starts a job: the module-level cache is empty
NewProcess ==
    \E m \in Modes, t \in Thresholds :
        /\ locality_validate_cache # EmptyCache
        /\ locality_validate_cache' = EmptyCache
        /\ ctx_validate' = m
        /\ ctx_fuzzy_threshold' = t
        /\ zip_format_fail' = 0
        /\ v_call' = NoCall
        /\ UNCHANGED <<gc_cities, v_ledger>>
        /\ UNCHANGED <<cleanVars, jobVars, exVars, rowVars, readVars, resolveVars, mergeVars, sampleVars, reportVars>>

----------------------------------------------------------------------------
(* The CLEAN stage on one cell                                             *)

\* the CLEAN stage applies clean_value to a cell (pipeline.py:212)
CleanOnce ==
    /\ cv_pc = "start"
    /\ cv_once' = clean_value(cv_value)
    /\ cv_pc' = "once"
    /\ UNCHANGED <<cv_value, cv_twice>>
    /\ UNCHANGED <<valVars, jobVars, exVars, rowVars, readVars, resolveVars, mergeVars, sampleVars, reportVars>>

\* a second application to the cleaned cell
CleanTwice ==
    /\ cv_pc = "once"
    /\ cv_twice' = clean_value(cv_once)
    /\ cv_pc' = "twice"
    /\ UNCHANGED <<cv_value, cv_once>>
    /\ UNCHANGED <<valVars, jobVars, exVars, rowVars, readVars, resolveVars, mergeVars, sampleVars, reportVars>>

----------------------------------------------------------------------------
(* The batch loop of run_job and write_chunk                               *)

MaxRows == 6
MaxChunk == 3

HEADER == "header"
NoFile == [exists |-> FALSE, lines |-> <<>>]
File(lines) == [exists |-> TRUE, lines |-> lines]
\* an output file left by an earlier job at the same path
StaleFile == File(<<HEADER, 101, 102>>)

\* the data rows of a batch, each written as its row id
BatchRows(first, n) == [i \in 1..n |-> first + i - 1]

\* df.to_csv(out_path, mode = "w" if header else "a", header = header)
to_csv(file, rows, mode, header) ==
    File((IF mode = "w" THEN <<>> ELSE file.lines)
         \o (IF header THEN <<HEADER>> ELSE <<>>)
         \o rows)

\* to_csv opened in mode "w" whatever the batch
write_chunk_truncating(file, rows, header) == to_csv(file, rows, "w", header)

write_chunk(file, rows, header) ==
    to_csv(file, rows, IF header THEN "w" ELSE "a", header)

JobInit ==
    /\ j_pc = "start"
    /\ j_rows \in 0..MaxRows
    /\ j_chunksize \in 1..MaxChunk
    /\ processed_rows = 0
    /\ header_written = FALSE
    /\ out_file \in {NoFile, StaleFile}
    /\ j_batches = 0

JobIdle ==
    /\ j_pc = "idle"
    /\ j_rows = 0
    /\ j_chunksize = 1
    /\ processed_rows = 0
    /\ header_written = FALSE
    /\ out_file = NoFile
    /\ j_batches = 0

\* run_job up to the loop: an existing output file is removed
JobStart ==
    /\ j_pc = "start"
    /\ out_file' = NoFile
    /\ header_written' = FALSE
    /\ processed_rows' = 0
    /\ j_pc' = "loop"
    /\ UNCHANGED <<j_rows, j_chunksize, j_batches>>
    /\ UNCHANGED <<cleanVars, valVars, exVars, rowVars, readVars, resolveVars, mergeVars, sampleVars, reportVars>>

\* one iteration of the loop: read_csv_chunks yields the next chunksize rows
\* (the last chunk the rest), the batch is transformed and written
ProcessChunk ==
    /\ j_pc = "loop"
    /\ processed_rows < j_rows
    /\ out_file' = write_chunk(out_file,
                               BatchRows(processed_rows + 1,
                                         Min(j_chunksize, j_rows - processed_rows)),
                               ~header_written)
    /\ header_written' = TRUE
    /\ processed_rows' = processed_rows + Min(j_chunksize, j_rows - processed_rows)
    /\ j_batches' = j_batches + 1
    /\ UNCHANGED <<j_pc, j_rows, j_chunksize>>
    /\ UNCHANGED <<cleanVars, valVars, exVars, rowVars, readVars, resolveVars, mergeVars, sampleVars, reportVars>>

\* read_csv_chunks is exhausted: the report is written and run_job returns
JobEnd ==
    /\ j_pc = "loop"
    /\ processed_rows = j_rows
    /\ j_pc' = "done"
    /\ UNCHANGED <<j_rows, j_chunksize, processed_rows, header_written, out_file, j_batches>>
    /\ UNCHANGED <<cleanVars, valVars, exVars, rowVars, readVars, resolveVars, mergeVars, sampleVars, reportVars>>

----------------------------------------------------------------------------
(* parsers/address_extract.py                                              *)

\* \w and \b of Python's re on text
IsWord(c) == IsAlnum(c) \/ c = "_"
WordAt(s, i) == i >= 1 /\ i <= Len(s) /\ IsWord(s[i])
\* is there a word boundary between the positions i and i + 1 of s
Boundary(s, i) == WordAt(s, i) # WordAt(s, i + 1)

\* _RE_COMMON_SEPS = [,;/]+
Seps == {",", ";", "/"}
\* parts = [p.strip() for p in _RE_COMMON_SEPS.split(address) if p.strip()]
Parts(address) ==
    SelectSeq([n \in DOMAIN RunsOf(address, Seps) |-> strip(RunsOf(address, Seps)[n])],
              LAMBDA p : p # <<>>)

\* _RE_POSTCODE = \b[A-Z0-9][A-Z0-9 \-]{2,9}\b, IGNORECASE
PostFirst == AsciiLetters \cup Digits
PostRest == PostFirst \cup {" ", "-"}
PostLens(s, i) ==
    {n \in 3..10 : /\ i + n - 1 <= Len(s)
                   /\ \A k \in (i + 1)..(i + n - 1) : s[k] \in PostRest
                   /\ Boundary(s, i + n - 1)}
PostStarts(s) ==
    {i \in 1..Len(s) : s[i] \in PostFirst /\ Boundary(s, i - 1) /\ PostLens(s, i) # {}}
\* _RE_POSTCODE.search(s).group(0), None without a match: the leftmost start,
\* the longest match from it
PostcodeAt(s, i) == SubSeq(s, i, i + MaxOf(PostLens(s, i)) - 1)
PostcodeSearch(s) ==
    IF PostStarts(s) = {} THEN None ELSE PostcodeAt(s, MinOf(PostStarts(s)))

\* _RE_HOUSENUM = \b(\d+[A-Za-z\/\-]?)\b : the digits from position i on
DigitsEnd(s, i) == MaxOf({j \in i..Len(s) : \A k \in i..j : IsDigit(s[k])})
\* the end of the match that starts at i with all the digits up to e, 0 if none
HouseEndFrom(s, e) ==
    IF e < Len(s) /\ s[e + 1] \in AsciiLetters \cup {"/", "-"} /\ Boundary(s, e + 1)
    THEN e + 1
    ELSE IF Boundary(s, e) THEN e ELSE 0
HouseStarts(s) ==
    {i \in 1..Len(s) : /\ IsDigit(s[i]) /\ Boundary(s, i - 1)
                       /\ HouseEndFrom(s, DigitsEnd(s, i)) # 0}
HouseAt(s, i) == SubSeq(s, i, HouseEndFrom(s, DigitsEnd(s, i)))
HouseSearch(s) ==
    IF HouseStarts(s) = {} THEN None ELSE HouseAt(s, MinOf(HouseStarts(s)))

\* a dict of libpostal labels: every label, None for a missing one
NoLabels ==
    [house_number |-> None, house_hyphen_number |-> None, road |-> None, unit |-> None,
     suburb |-> None, city |-> None, state |-> None, postcode |-> None, country |-> None]

\* for p in reversed(parts): the postcode of the last part that has one
LastPostcode(parts) ==
    IF \A n \in DOMAIN parts : PostcodeSearch(parts[n]) = None THEN None
    ELSE strip(PostcodeSearch(parts[MaxOf({n \in DOMAIN parts :
                                             PostcodeSearch(parts[n]) # None})]))

FallbackOf(address, parts) ==
    [NoLabels EXCEPT
        !.postcode = LastPostcode(parts),
        !.road = IF parts # <<>> THEN parts[1] ELSE None,
        !.city = IF Len(parts) >= 2 THEN parts[Len(parts) - 1] ELSE None,
        !.country = IF Len(parts) >= 3 THEN parts[Len(parts)] ELSE None,
        !.house_number = HouseSearch(address)]

_fallback_regex(address) == FallbackOf(address, Parts(address))

\* the reply of the parsing service to a request
Reply(status, data, alt_status, alt_data) ==
    [status |-> status, data |-> data, alt_status |-> alt_status, alt_data |-> alt_data]

\* _parse_via_libpostal: the labels of the reply to /parser, on a 400 or 404
\* those of /parse, and {} on any other status or on an exception
_parse_via_libpostal(reply) ==
    IF reply.status = 200 THEN reply.data
    ELSE IF reply.status \in {400, 404} /\ reply.alt_status = 200 THEN reply.alt_data
    ELSE NoLabels

\* the result of extract_from_address: our keys, None for a missing one
NoParsed ==
    [house_number |-> None, road |-> None, unit |-> None, suburb |-> None,
     city |-> None, state |-> None, zip |-> None, country |-> None]

\* label_map of extract_from_address applied to the labels
Relabel(labels) ==
    [house_number |-> strip(IF labels.house_number # None THEN labels.house_number
                            ELSE labels.house_hyphen_number),
     road |-> strip(labels.road),
     unit |-> strip(labels.unit),
     suburb |-> strip(labels.suburb),
     city |-> strip(labels.city),
     state |-> strip(labels.state),
     zip |-> strip(labels.postcode),
     country |-> strip(labels.country)]

OrFallback(parsed, address) == IF parsed = NoLabels THEN _fallback_regex(address) ELSE parsed

\* extract_from_address(address, mode, libpostal_url); reply: what the service
\* answers for this address
extract_from_address(address, libpostal_url, reply) ==
    IF strip(address) = <<>> THEN NoParsed
    ELSE Relabel(OrFallback(IF libpostal_url THEN _parse_via_libpostal(reply) ELSE NoLabels,
                            strip(address)))

----------------------------------------------------------------------------
(* The EXTRACT stage of a batch: the queue, the pool and the join          *)

MaxItems == 2
MaxWorkers == 2

Addr1 == <<"S", "o", "i", " ", "9", ",", "B", "a", "n", "g", "k", "o", "k">>
Addr2 == <<"1", "2", "a", " ", "R", "d", ";", "B", "k", "k", "/", "T", "H">>
Addresses == {Addr1, Addr2}

Labels1 ==
    [NoLabels EXCEPT !.road = <<"S", "o", "i">>, !.house_hyphen_number = <<"9">>,
                     !.city = S_Bangkok, !.state = S_Bangkok]
Labels2 ==
    [NoLabels EXCEPT !.road = <<"R", "d">>, !.house_number = <<"1", "2", "a">>,
                     !.city = <<"B", "k", "k">>, !.country = A2_TH]
Replies ==
    { Reply(200, Labels1, 0, NoLabels),
      Reply(404, NoLabels, 200, Labels2),
      Reply(503, NoLabels, 0, NoLabels) }

Pending == "pending"
MainThread == 0
Idle == [pc |-> "idle", task |-> 0, sess |-> None]

\* to_parse of run_job: the rows with an address, in row order
ToParse(rows) ==
    SelectSeq([i \in DOMAIN rows |-> <<i, strip(rows[i])>>], LAMBDA item : item[2] # <<>>)

\* _do_parse(a) of run_job; use_libpostal is always set here
_do_parse(a, service) == extract_from_address(a, TRUE, service[a])

\* the item most recently handed to any task
TaskItemShared(queue, task, handed) == queue[handed]
\* the item a pool task works on: the argument ex.map passes to it
TaskItem(queue, task, handed) == queue[task]

\* the map a single worker leaves: the loop over to_parse in order
SingleWorkerMap(queue, service) ==
    [k \in {queue[i][1] : i \in DOMAIN queue} |->
        _do_parse(queue[MaxOf({i \in DOMAIN queue : queue[i][1] = k})][2], service)]

ExtractInit ==
    /\ x_pc = "start"
    /\ x_rows \in UNION {[1..n -> Addresses \cup {<<>>}] : n \in 0..MaxItems}
    /\ x_concurrency \in 1..MaxWorkers
    /\ x_service \in [Addresses -> Replies]
    /\ to_parse = <<>>
    /\ x_next = 1
    /\ x_worker = [w \in 1..MaxWorkers |-> Idle]
    /\ _session = None
    /\ x_futures = <<>>
    /\ x_collected = 0
    /\ parsed_map = << >>
    /\ x_disorder = FALSE
    /\ x_applied = 0
    /\ x_records = <<>>

ExtractIdle ==
    /\ x_pc = "idle"
    /\ x_rows = <<>>
    /\ x_concurrency = 1
    /\ x_service = << >>
    /\ to_parse = <<>>
    /\ x_next = 1
    /\ x_worker = << >>
    /\ _session = None
    /\ x_futures = <<>>
    /\ x_collected = 0
    /\ parsed_map = << >>
    /\ x_disorder = FALSE
    /\ x_applied = 0
    /\ x_records = <<>>

\* pipeline.py:229-254: the queue is built; nothing to parse ends the stage,
\* a concurrency above 1 submits every item to the pool
BuildQueue ==
    /\ x_pc = "start"
    /\ to_parse' = ToParse(x_rows)
    /\ x_futures' = [i \in DOMAIN ToParse(x_rows) |-> Pending]
    /\ x_pc' = IF ToParse(x_rows) = <<>> THEN "joined"
               ELSE IF x_concurrency > 1 THEN "pool" ELSE "seq"
    /\ UNCHANGED <<x_rows, x_concurrency, x_service, x_next, x_worker, _session,
                   x_collected, parsed_map, x_disorder>>
    /\ UNCHANGED <<x_applied, x_records>>
    /\ UNCHANGED <<cleanVars, valVars, jobVars, rowVars, readVars, resolveVars, mergeVars, sampleVars, reportVars>>

\* a free pool thread takes the next item of the queue
TakeTask(w) ==
    /\ x_pc = "pool"
    /\ w <= x_concurrency
    /\ x_worker[w].pc = "idle"
    /\ x_next <= Len(to_parse)
    /\ x_worker' = [x_worker EXCEPT ![w] = [pc |-> "session", task |-> x_next, sess |-> None]]
    /\ x_next' = x_next + 1
    /\ UNCHANGED <<x_pc, x_rows, x_concurrency, x_service, to_parse, _session, x_futures,
                   x_collected, parsed_map, x_disorder>>
    /\ UNCHANGED <<x_applied, x_records>>
    /\ UNCHANGED <<cleanVars, valVars, jobVars, rowVars, readVars, resolveVars, mergeVars, sampleVars, reportVars>>

\* _get_session: the test "_session is None"
TestSession(w) ==
    /\ x_pc = "pool"
    /\ x_worker[w].pc = "session"
    /\ x_worker' = [x_worker EXCEPT ![w].pc = IF _session = None THEN "create" ELSE "return"]
    /\ UNCHANGED <<x_pc, x_rows, x_concurrency, x_service, to_parse, x_next, _session,
                   x_futures, x_collected, parsed_map, x_disorder>>
    /\ UNCHANGED <<x_applied, x_records>>
    /\ UNCHANGED <<cleanVars, valVars, jobVars, rowVars, readVars, resolveVars, mergeVars, sampleVars, reportVars>>

\* _get_session: a new session is mounted and stored in the global
CreateSession(w) ==
    /\ x_pc = "pool"
    /\ x_worker[w].pc = "create"
    /\ _session' = <<"session", w>>
    /\ x_worker' = [x_worker EXCEPT ![w].pc = "return"]
    /\ UNCHANGED <<x_pc, x_rows, x_concurrency, x_service, to_parse, x_next, x_futures,
                   x_collected, parsed_map, x_disorder>>
    /\ UNCHANGED <<x_applied, x_records>>
    /\ UNCHANGED <<cleanVars, valVars, jobVars, rowVars, readVars, resolveVars, mergeVars, sampleVars, reportVars>>

\* _get_session: "return _session" reads the global
ReturnSession(w) ==
    /\ x_pc = "pool"
    /\ x_worker[w].pc = "return"
    /\ x_worker' = [x_worker EXCEPT ![w].pc = "post", ![w].sess = _session]
    /\ UNCHANGED <<x_pc, x_rows, x_concurrency, x_service, to_parse, x_next, _session,
                   x_futures, x_collected, parsed_map, x_disorder>>
    /\ UNCHANGED <<x_applied, x_records>>
    /\ UNCHANGED <<cleanVars, valVars, jobVars, rowVars, readVars, resolveVars, mergeVars, sampleVars, reportVars>>

\* the task posts its address, resolves the reply and completes its future
\* with (idx, parsed)
CompleteTask(w) ==
    /\ x_pc = "pool"
    /\ x_worker[w].pc = "post"
    /\ x_futures' = [x_futures EXCEPT ![x_worker[w].task] =
                        << TaskItem(to_parse, x_worker[w].task, x_next - 1)[1],
                           _do_parse(TaskItem(to_parse, x_worker[w].task, x_next - 1)[2],
                                     x_service) >>]
    /\ x_disorder' = (x_disorder \/ \E i \in 1..(x_worker[w].task - 1) : x_futures[i] = Pending)
    /\ x_worker' = [x_worker EXCEPT ![w] = Idle]
    /\ UNCHANGED <<x_pc, x_rows, x_concurrency, x_service, to_parse, x_next, _session,
                   x_collected, parsed_map>>
    /\ UNCHANGED <<x_applied, x_records>>
    /\ UNCHANGED <<cleanVars, valVars, jobVars, rowVars, readVars, resolveVars, mergeVars, sampleVars, reportVars>>

\* the main thread takes the next result of ex.map, in submission order
CollectResult ==
    /\ x_pc = "pool"
    /\ x_collected < Len(to_parse)
    /\ x_futures[x_collected + 1] # Pending
    /\ parsed_map' = (x_futures[x_collected + 1][1] :> x_futures[x_collected + 1][2])
                     @@ parsed_map
    /\ x_collected' = x_collected + 1
    /\ UNCHANGED <<x_pc, x_rows, x_concurrency, x_service, to_parse, x_next, x_worker,
                   _session, x_futures, x_disorder>>
    /\ UNCHANGED <<x_applied, x_records>>
    /\ UNCHANGED <<cleanVars, valVars, jobVars, rowVars, readVars, resolveVars, mergeVars, sampleVars, reportVars>>

\* a variant of AllCollected that lets go after the first result
SomeCollected(collected, queue) == collected >= 1
\* the loop over the results of ex.map has ended (pipeline.py:257-258)
AllCollected(collected, queue) == collected = Len(queue)

\* every result is consumed: the pool is shut down and joined
JoinPool ==
    /\ x_pc = "pool"
    /\ AllCollected(x_collected, to_parse)
    /\ x_pc' = "joined"
    /\ UNCHANGED <<x_rows, x_concurrency, x_service, to_parse, x_next, x_worker, _session,
                   x_futures, x_collected, parsed_map, x_disorder>>
    /\ UNCHANGED <<x_applied, x_records>>
    /\ UNCHANGED <<cleanVars, valVars, jobVars, rowVars, readVars, resolveVars, mergeVars, sampleVars, reportVars>>

\* concurrency 1: the main thread parses the next item itself
ParseNext ==
    /\ x_pc = "seq"
    /\ x_collected < Len(to_parse)
    /\ _session' = IF _session = None THEN <<"session", MainThread>> ELSE _session
    /\ parsed_map' = (to_parse[x_collected + 1][1] :>
                          _do_parse(to_parse[x_collected + 1][2], x_service))
                     @@ parsed_map
    /\ x_collected' = x_collected + 1
    /\ UNCHANGED <<x_pc, x_rows, x_concurrency, x_service, to_parse, x_next, x_worker,
                   x_futures, x_disorder>>
    /\ UNCHANGED <<x_applied, x_records>>
    /\ UNCHANGED <<cleanVars, valVars, jobVars, rowVars, readVars, resolveVars, mergeVars, sampleVars, reportVars>>

EndLoop ==
    /\ x_pc = "seq"
    /\ x_collected = Len(to_parse)
    /\ x_pc' = "joined"
    /\ UNCHANGED <<x_rows, x_concurrency, x_service, to_parse, x_next, x_worker, _session,
                   x_futures, x_collected, parsed_map, x_disorder>>
    /\ UNCHANGED <<x_applied, x_records>>
    /\ UNCHANGED <<cleanVars, valVars, jobVars, rowVars, readVars, resolveVars, mergeVars, sampleVars, reportVars>>

\* pipeline.py:264-300: after the extraction the main thread passes over the
\* rows of the batch in order; a row with a non-empty parsed result has its
\* record updated with it
ApplyNext ==
    /\ x_pc = "joined"
    /\ x_applied < Len(x_rows)
    /\ x_records' = Append(x_records,
                           IF x_applied + 1 \in DOMAIN parsed_map
                           THEN parsed_map[x_applied + 1] ELSE NoParsed)
    /\ x_applied' = x_applied + 1
    /\ UNCHANGED <<x_pc, x_rows, x_concurrency, x_service, to_parse, x_next, x_worker,
                   _session, x_futures, x_collected, parsed_map, x_disorder>>
    /\ UNCHANGED <<cleanVars, valVars, jobVars, rowVars, readVars, resolveVars, mergeVars, sampleVars, reportVars>>

----------------------------------------------------------------------------
(* pipeline.py: the PROMOTE and REPAIR steps and the use of a parsed address *)

\* RE_HAS_DIGIT.search(s)
RE_HAS_DIGIT(s) == \E i \in DOMAIN s : IsDigit(s[i])
\* RE_CITYZIP_MIX.search(s): a Latin letter before a digit or a digit before one
RE_CITYZIP_MIX(s) ==
    \E i \in DOMAIN s, j \in DOMAIN s :
        i # j /\ s[i] \in AsciiLetters /\ IsDigit(s[j])
\* the alternatives of RE_STREET_WORD
StreetWords == {
    <<"s", "t">>,
    <<"s", "t", "r", "e", "e", "t">>,
    <<"r", "o", "a", "d">>,
    <<"r", "d">>,
    <<"a", "v", "e">>,
    <<"a", "v", "e", "n", "u", "e">>,
    <<"b", "l", "v", "d">>,
    <<"l", "a", "n", "e">>,
    <<"l", "n">>,
    <<"h", "w", "y">>,
    <<"h", "i", "g", "h", "w", "a", "y">>,
    <<"r", "u", "e">>,
    <<"s", "o", "i">>,
    <<"j", "a", "l", "a", "n">>,
    <<"j", "l", ".">>,
    <<"a", "v">>,
    <<"c", "a", "l", "l", "e">>,
    <<"v", "i", "a">>,
    <<"s", "t", "r">>,
    <<"s", "t", "r", ".">> }
\* RE_STREET_WORD.search(s): an alternative, ignoring case, between two word
\* boundaries
RE_STREET_WORD(s) ==
    \E i \in DOMAIN s, j \in DOMAIN s :
        /\ i <= j
        /\ Boundary(s, i - 1)
        /\ Boundary(s, j)
        /\ lower(SubSeq(s, i, j)) \in StreetWords
\* RE_ZIP_TOKEN.match(s)
RE_ZIP_TOKEN(s) ==
    /\ Len(s) \in 3..10
    /\ s[1] \in AsciiLetters \cup Digits
    /\ \A k \in 2..Len(s) : s[k] \in AsciiLetters \cup Digits \cup {" ", "-"}
\* RE_ZIP_PURE_DIG.match(s)
RE_ZIP_PURE_DIG(s) == Len(s) \in 4..6 /\ \A k \in DOMAIN s : IsDigit(s[k])

NonEmpty(parts) == SelectSeq(parts, LAMBDA p : p # <<>>)
CommaSpace == <<",", " ">>

\* the tail of _compose_street: the unit appended to road and house number
WithUnit(s, unit) ==
    IF unit = <<>> THEN s ELSE IF s # <<>> THEN s \o CommaSpace \o unit ELSE unit
_compose_street(existing_street, parsed) ==
    IF existing_street # None THEN existing_street
    ELSE WithUnit(Join(NonEmpty(<<strip(parsed.road), strip(parsed.house_number)>>), CommaSpace),
                  strip(parsed.unit))

\* s.count(c)
Count(s, c) == Cardinality({i \in DOMAIN s : s[i] = c})
\* a variant that takes one comma for a full address
looks_like_addr_segments(s) == Count(s, ",") >= 1 \/ (RE_HAS_DIGIT(s) /\ RE_STREET_WORD(s))

looks_like_addr(s) == Count(s, ",") >= 2 \/ (RE_HAS_DIGIT(s) /\ RE_STREET_WORD(s))

\* the loop of _promote_address_like over region, street, district, locality:
\* the first field that looks like an address moves to address
PromoteKeys == <<"region", "street", "district", "locality">>
PromoteHits(row) ==
    {n \in DOMAIN PromoteKeys : row[PromoteKeys[n]] # None /\ looks_like_addr(row[PromoteKeys[n]])}
PromoteFirst(row, key) == [row EXCEPT !.address = row[key], ![key] = None]
_promote_address_like(row) ==
    IF row.address # None THEN row
    ELSE IF /\ strip(row.street) # <<>>
            /\ RE_ZIP_PURE_DIG(strip(row.locality)) \/ RE_ZIP_TOKEN(strip(row.locality))
            /\ Count(strip(row.street), ",") >= 1 \/ RE_HAS_DIGIT(strip(row.street))
         THEN [row EXCEPT !.address = strip(row.street), !.street = None]
    ELSE IF PromoteHits(row) = {} THEN row
    ELSE PromoteFirst(row, PromoteKeys[MinOf(PromoteHits(row))])

\* a variant that keeps a country that does not resolve
RepairCountryKept(row) == row

\* the four steps of _repair_misaligned_row, in the order of the code
RepairCountry(row) ==
    IF row.country # None /\ lookup(row.country) = NoCountry
    THEN [row EXCEPT !.country = None] ELSE row
RepairRegion(row) ==
    IF row.region # None /\ RE_HAS_DIGIT(row.region)
    THEN [row EXCEPT !.region = None] ELSE row
RepairDistrict(row) ==
    IF row.country = None /\ row.district # None /\ lookup(row.district) # NoCountry
    THEN [row EXCEPT !.country = row.district, !.district = None] ELSE row
RepairMixed(row) ==
    [row EXCEPT !.country  = IF RE_CITYZIP_MIX(@) THEN None ELSE @,
                !.region   = IF RE_CITYZIP_MIX(@) THEN None ELSE @,
                !.district = IF RE_CITYZIP_MIX(@) THEN None ELSE @]
\* a variant that looks at the district before the country is checked
_repair_misaligned_row_entry(row) ==
    IF row.address = None THEN row
    ELSE RepairMixed(RepairRegion(RepairCountry(RepairDistrict(row))))

_repair_misaligned_row(row) ==
    IF row.address = None THEN row
    ELSE RepairMixed(RepairDistrict(RepairRegion(RepairCountry(row))))

\* the address queued for the row (pipeline.py:233-246), None if it is skipped
AddressOf(row, libpostal_always) ==
    IF strip(row.address) # <<>> THEN strip(row.address)
    ELSE IF libpostal_always
         THEN Join(NonEmpty(<<strip(row.street), strip(row.district), strip(row.locality),
                              strip(row.region), strip(row.zip), strip(row.country)>>),
                   CommaSpace)
    ELSE None

\* unidecode(str(v or "")).strip().lower(): the key of the echo and name guards
FoldKey(v) == lower(strip(unidecode(v)))

\* a variant of ApplyStreet that composes the street whatever the row has
ApplyStreetOverwrite(row, parsed) ==
    IF _compose_street(None, parsed) # None
    THEN [row EXCEPT !.street = _compose_street(None, parsed)]
    ELSE row
\* street_from_address: only an empty street is filled (pipeline.py:274-280)
ApplyStreet(row, parsed) ==
    IF row.street = None /\ _compose_street(row.street, parsed) # None
    THEN [row EXCEPT !.street = _compose_street(row.street, parsed)]
    ELSE row

\* the value a parsed address gives for a target, "" if the guard against the
\* person's name drops it (pipeline.py:286-290)
NewValue(target, parsed, full_name) ==
    IF target = "street" THEN _compose_street(None, parsed)
    ELSE IF /\ target \in {"locality", "region"}
            /\ full_name # None
            /\ FoldKey(parsed[IF target = "locality" THEN "city" ELSE "state"]) = FoldKey(full_name)
         THEN None
    ELSE parsed[CASE target = "locality" -> "city"
                  [] target = "district" -> "suburb"
                  [] target = "region" -> "state"
                  [] target = "country" -> "country"
                  [] target = "zip" -> "zip"]
\* a variant of Filled that ignores the mode: a populated field is overwritten
FilledAlways(old, nv, mode) ==
    IF nv = None THEN old ELSE nv
\* one target of the loop of pipeline.py:282-294
Filled(old, nv, mode) ==
    IF (mode = "fill-missing-only" /\ old # None) \/ nv = None THEN old ELSE nv
ApplyTargets(row, parsed, mode, full_name) ==
    [row EXCEPT
        !.street   = Filled(@, NewValue("street", parsed, full_name), mode),
        !.locality = Filled(@, NewValue("locality", parsed, full_name), mode),
        !.district = Filled(@, NewValue("district", parsed, full_name), mode),
        !.region   = Filled(@, NewValue("region", parsed, full_name), mode),
        !.country  = Filled(@, NewValue("country", parsed, full_name), mode),
        !.zip      = Filled(@, NewValue("zip", parsed, full_name), mode)]

\* the echo fix after EXTRACT (pipeline.py:296-300)
EchoFix(row) ==
    IF /\ FoldKey(row.locality) # <<>>
       /\ FoldKey(row.region) # <<>>
       /\ FoldKey(row.locality) = FoldKey(row.region)
    THEN [row EXCEPT !.region = None] ELSE row

\* the body of the loop of pipeline.py:264-300 for one row
ApplyParsed(row, parsed, mode, street_from_address) ==
    IF parsed = NoParsed THEN row
    ELSE EchoFix(IF street_from_address THEN ApplyStreet(row, parsed)
                 ELSE ApplyTargets(row, parsed, mode, strip(row.fullname)))

----------------------------------------------------------------------------
(* rules/normalize.py                                                      *)

\* The profile of the jobs of the model (_load_profiles).  The three street
\* options drop_emails_phones_from_street, drop_unit_attrs and
\* drop_non_addressy_single_tokens are absent from it and from the rules
\* document, which is their default.
profile ==
    [stop_country_suffixes |-> << <<" ", "k", "i", "n", "g", "d", "o", "m">> >>,
     country_aliases |-> (<<"s", "i", "a", "m">> :> S_Thailand),
     region_aliases |-> << >>,
     locality_aliases |-> << >>,
     district_aliases |-> << >>,
     street_suffix_normalization |-> (<<"r", "d">> :> <<"R", "o", "a", "d">>)]
\* the rules document of the jobs of the model: its synonyms
rules_document ==
    [synonyms |-> (<<"B", "k", "k">> :> S_Bangkok) @@ (S_ChonBuri :> S_Chonburi)]
\* _load_user_rules: the synonyms become locality aliases under their
\* stripped, lowered keys (pipeline.py:94-97)
SynonymKeys(syn) == {k \in DOMAIN syn : k # <<>> /\ syn[k] # <<>>}
_load_user_rules(data) ==
    [locality_aliases |->
        [key \in {lower(strip(k)) : k \in SynonymKeys(data.synonyms)} |->
            data.synonyms[CHOOSE k \in SynonymKeys(data.synonyms) : lower(strip(k)) = key]]]
\* ctx.profiles_data: the profile updated with the user rules (pipeline.py:177-188)
profiles_data ==
    [profile EXCEPT !.locality_aliases = _load_user_rules(rules_document).locality_aliases @@ @]
\* the per-country alias tables of the profile: none
aliases_by_country(alpha2) == << >>

\* _is_empty
_is_empty(s) ==
    \/ s = None
    \/ strip(s) = <<>>
    \/ lower(strip(s)) \in {<<"n", "a", "n">>, <<"n", "u", "l", "l">>, <<"n", "o", "n", "e">>}

\* str.capitalize()
capitalize(p) == IF p = <<>> THEN <<>> ELSE <<UpperChar(p[1])>> \o lower(Tail(p))
_smart_title(s) ==
    IF \A i \in DOMAIN s : s[i] \notin AsciiLetters THEN strip(s)
    ELSE strip(Join([n \in DOMAIN RunsOf(s, Whitespace) |->
                        IF Len(RunsOf(s, Whitespace)[n]) > 2
                        THEN capitalize(RunsOf(s, Whitespace)[n])
                        ELSE upper(RunsOf(s, Whitespace)[n])],
                    <<" ">>))

_cleanup_basic(s) == CollapseWs(StripSet(strip(s), PunctEdge))

\* aliases.get(value.strip().lower(), value)
_apply_alias(value, aliases) ==
    IF lower(strip(value)) \in DOMAIN aliases THEN aliases[lower(strip(value))] ELSE value

EndsWith(s, suf) == Len(suf) <= Len(s) /\ SubSeq(s, Len(s) - Len(suf) + 1, Len(s)) = suf
\* one round of the loop of _strip_stop_suffixes on the lowered s
StripSuffix(s, suf) ==
    IF suf # <<>> /\ EndsWith(s, suf)
    THEN strip(StripSet(SubSeq(s, 1, Len(s) - Len(suf)), {",", " "}))
    ELSE s
RECURSIVE StripSuffixes(_, _)
StripSuffixes(s, suffixes) ==
    IF suffixes = <<>> THEN s
    ELSE StripSuffixes(StripSuffix(s, lower(strip(Head(suffixes)))), Tail(suffixes))
_strip_stop_suffixes(country, suffixes) == StripSuffixes(lower(strip(country)), suffixes)

\* _pycountry_match_country: lookup, then the names compared without
\* diacritics and case
NameFields(c) == {c.common_name, c.official_name, c.name} \ {None}
_pycountry_match_country(name) ==
    IF lookup(name) # NoCountry THEN lookup(name)
    ELSE IF \E c \in Countries : \E f \in NameFields(c) : lower(unidecode(f)) = lower(unidecode(name))
         THEN CHOOSE c \in Countries :
                  \E f \in NameFields(c) : lower(unidecode(f)) = lower(unidecode(name))
    ELSE NoCountry

\* the pair (name, alpha2) of _normalize_country
CountryPair(name, alpha2) == [name |-> name, alpha2 |-> alpha2]
CountryOf(c, aliased) ==
    IF c # NoCountry
    THEN CountryPair(IF c.common_name # None THEN c.common_name ELSE c.name, c.alpha_2)
    ELSE CountryPair(_smart_title(aliased), None)
Aliased(country) ==
    _apply_alias(_strip_stop_suffixes(_cleanup_basic(country), profiles_data.stop_country_suffixes),
                 profiles_data.country_aliases)
_normalize_country(country) ==
    IF _is_empty(country) THEN CountryPair(None, None)
    ELSE CountryOf(_pycountry_match_country(Aliased(country)), Aliased(country))

\* the common body of _normalize_region, _normalize_locality and
\* _normalize_district: the global aliases, then those of the country
ByCountry(s, alpha2) ==
    IF alpha2 # None THEN _apply_alias(s, aliases_by_country(alpha2)) ELSE s
_normalize_region(region, alpha2) ==
    IF _is_empty(region) THEN None
    ELSE _smart_title(ByCountry(_apply_alias(_cleanup_basic(region), profiles_data.region_aliases), alpha2))
_normalize_locality(locality, alpha2) ==
    IF _is_empty(locality) THEN None
    ELSE _smart_title(ByCountry(_apply_alias(_cleanup_basic(locality), profiles_data.locality_aliases), alpha2))
_normalize_district(district, alpha2) ==
    IF _is_empty(district) THEN None
    ELSE _smart_title(ByCountry(_apply_alias(_cleanup_basic(district), profiles_data.district_aliases), alpha2))

\* _SEP_RE.sub(", ", s) with _SEP_RE = \s*[,;]\s* : the end of the match that
\* starts at i, 0 if none does
WsEnd(s, i) == MaxOf({i - 1} \cup {j \in i..Len(s) : \A k \in i..j : IsSpace(s[k])})
SepMatchEnd(s, i) ==
    IF WsEnd(s, i) < Len(s) /\ s[WsEnd(s, i) + 1] \in {",", ";"}
    THEN WsEnd(s, WsEnd(s, i) + 2)
    ELSE 0
RECURSIVE SepSubFrom(_, _)
SepSubFrom(s, i) ==
    IF i > Len(s) THEN <<>>
    ELSE IF SepMatchEnd(s, i) # 0 THEN CommaSpace \o SepSubFrom(s, SepMatchEnd(s, i) + 1)
    ELSE <<s[i]>> \o SepSubFrom(s, i + 1)
SepSub(s) == SepSubFrom(s, 1)

\* tokens = re.split(r"[\s,;./\\-]+", s) without the empty ones
StreetTokenSeps == Whitespace \cup {",", ";", ".", "/", "\\", "-"}
has_word3(s) ==
    \E n \in DOMAIN RunsOf(s, StreetTokenSeps) :
        Cardinality({k \in DOMAIN RunsOf(s, StreetTokenSeps)[n] :
                        IsAlpha(RunsOf(s, StreetTokenSeps)[n][k])}) >= 3
\* the suffix map applied to the words of s (normalize.py:164-171)
SuffixWord(t, suffix_map) ==
    IF StripSet(lower(t), {"."}) \in DOMAIN suffix_map
    THEN suffix_map[StripSet(lower(t), {"."})] ELSE t
Suffixes(s, suffix_map) ==
    IF DOMAIN suffix_map # {} /\ \E i \in DOMAIN s : s[i] \in AsciiLetters
    THEN Join([n \in DOMAIN RunsOf(s, Whitespace) |-> SuffixWord(RunsOf(s, Whitespace)[n], suffix_map)],
              <<" ">>)
    ELSE s
\* _normalize_street from the separators on (normalize.py:150-173)
StreetOf(s) ==
    IF ~has_word3(s) /\ ((\E i \in DOMAIN s : IsAlpha(s[i])) \/ RunsOf(s, StreetTokenSeps) # <<>>)
    THEN None
    ELSE _smart_title(Suffixes(s, profiles_data.street_suffix_normalization))
_normalize_street(street) ==
    IF _is_empty(street) THEN None
    ELSE IF \A i \in DOMAIN strip(street) : IsDigit(strip(street)[i]) \/ ~IsAlnum(strip(street)[i])
         THEN None
    ELSE StreetOf(CollapseWs(StripSet(SepSub(strip(street)), PunctEdge)))

\* _ONLY_DIGITS_ZIP = \b\d{4,6}\b : the starts of a word of four to six digits
DigitWordStarts(z) ==
    {i \in DOMAIN z : /\ IsDigit(z[i]) /\ Boundary(z, i - 1)
                      /\ DigitsEnd(z, i) - i + 1 \in 4..6
                      /\ Boundary(z, DigitsEnd(z, i))}
\* _GENERIC_ZIP_TOK = (?=.*\d)[A-Z0-9][A-Z0-9\- ]{2,9}$ : the starts of a tail
\* of the text that is such a token
ZipTailStarts(z) ==
    {i \in DOMAIN z : /\ Len(z) - i + 1 \in 3..10
                      /\ z[i] \in AsciiLetters \cup Digits
                      /\ \A k \in (i + 1)..Len(z) : z[k] \in AsciiLetters \cup Digits \cup {"-", " "}
                      /\ \E k \in i..Len(z) : IsDigit(z[k])}
\* m.group(0) of the first of the two searches that matches, None if neither
ZipMatch(z) ==
    IF DigitWordStarts(z) # {}
    THEN SubSeq(z, MinOf(DigitWordStarts(z)), DigitsEnd(z, MinOf(DigitWordStarts(z))))
    ELSE IF ZipTailStarts(z) # {} THEN SubSeq(z, MinOf(ZipTailStarts(z)), Len(z))
    ELSE None
_normalize_zip(zip_code) ==
    IF _is_empty(zip_code) THEN None
    ELSE strip(CollapseWs(strip(ZipMatch(upper(strip(zip_code))))))

\* normalize_fields up to the echo fix, the country already normalized
Normalized(row, c) ==
    [street |-> _normalize_street(row.street),
     district |-> _normalize_district(row.district, c.alpha2),
     locality |-> _normalize_locality(row.locality, c.alpha2),
     region |-> _normalize_region(row.region, c.alpha2),
     country |-> c.name,
     zip |-> _normalize_zip(row.zip)]
\* the echo fix of normalize_fields, under its flag (normalize.py:210-215)
EchoFixIf(normd, fix_echo_locality_region) ==
    IF /\ fix_echo_locality_region
       /\ FoldKey(normd.locality) # <<>>
       /\ FoldKey(normd.region) # <<>>
       /\ FoldKey(normd.locality) = FoldKey(normd.region)
    THEN [normd EXCEPT !.region = None] ELSE normd
normalize_fields(row, fix_echo_locality_region) ==
    EchoFixIf(Normalized(row, _normalize_country(row.country)), fix_echo_locality_region)

----------------------------------------------------------------------------
(* One row through the stages of run_job (pipeline.py:209-341)             *)

InRow(street, district, locality, region, country, zip, address, fullname) ==
    [street |-> street, district |-> district, locality |-> locality, region |-> region,
     country |-> country, zip |-> zip, address |-> address, fullname |-> fullname]
NoRow == InRow(None, None, None, None, None, None, None, None)

\* the rows of the input files of the model
RowInputs == {
    InRow(None, None, S_Bangkok, S_Bangkok, S_Thailand, S_10110, None, None),
    InRow(None, None, S_Bangkog, S_Bangkok, S_Thailand, S_10110, None, None),
    InRow(None, None, S_KoSamui, None, S_Thailand, S_84140, None, None),
    InRow(None, None, S_Bangkok, None, S_Thailand, S_10110, None, None),
    InRow(None, None, None, None, None, None, <<"S", "o", "i", " ", "9", ",", " ", "B", "a", "n", "g", "k", "o", "k", ",", " ", "T", "h", "a", "i", "l", "a", "n", "d">>, S_Bangkok),
    InRow(S_Soi9, None, S_10110, S_Chonbur, <<"s", "i", "a", "m">>, <<"B", "k", "k", " ", "1", "0", "1", "1", "0">>, None, None),
    InRow(<<"1", "2", " ", "R", "d", ",", "B", "k", "k", ",", "T", "H", " ", "1">>, <<"T", "H">>, None, None, None, None, None, None),
    InRow(None, None, None, None, None, None, S_Scenario2, None),
    InRow(None, None, None, S_ChonBuri, S_Thailand, None, None, None),
    InRow(<<"S", "u", "k", "h", "u", "m", "v", "i", "t">>, None, S_Bangkok, S_Bangkok, S_Thailand, None, None, None),
    InRow(<<"R", "d", " ", "1", ",", "a", ",", "b">>, None, <<"S", "o", "i", " ", "2", ",", "c">>, <<"B", "k", "k", ",", " ", "T", "H">>, None, None, None, None),
    InRow(None, <<"T", "H">>, None, <<"B", "k", "k", " ", "2">>, <<"s", "i", "a", "m">>, <<"B", "k", "k", " ", "A", "1", "2">>, <<"S", "o", "i", " ", "9", ",", " ", "B", "k", "k">>, None) }

\* the city reference of the row model
RowReference == <<C_Bangkok, C_BangBo, City(A2_TH, S_KoSamui, 2, <<>>)>>

\* the options of a job: those of cli.py and the echo flag of the rules file;
\* without a service URL the reply is never asked for
JobModes == {"fill-missing-only", "extract-all-to-fill"}
JobConfigs ==
    { [mode |-> m, street_from_address |-> s, libpostal_always |-> a,
       fix_echo_locality_region |-> e, libpostal_url |-> u, reply |-> r] :
        m \in JobModes, s \in BOOLEAN, a \in BOOLEAN, e \in BOOLEAN, u \in BOOLEAN,
        r \in Replies }
NoReply == Reply(503, NoLabels, 0, NoLabels)
NoConfig ==
    [mode |-> "", street_from_address |-> FALSE, libpostal_always |-> FALSE,
     fix_echo_locality_region |-> FALSE, libpostal_url |-> FALSE, reply |-> NoReply]

\* the cap of the number of rows one process takes up
MaxRowRuns == 2

\* nothing applied yet
NoApplied == [before |-> NoRow, parsed |-> NoParsed]

RowInit ==
    /\ r_pc = "clean"
    /\ r_applied = NoApplied
    /\ r_cfg \in {c \in JobConfigs : c.libpostal_url \/ c.reply = NoReply}
    /\ r_in \in RowInputs
    /\ r_row = r_in
    /\ r_flags = <<>>
    /\ r_runs = 1
    /\ gc_cities = RowReference
    /\ locality_validate_cache = EmptyCache
    /\ ctx_validate \in Modes
    /\ ctx_fuzzy_threshold \in Thresholds
    /\ zip_format_fail = 0
    /\ v_call = NoCall
    /\ v_ledger = {}

RowIdle ==
    /\ r_pc = "idle" /\ r_cfg = NoConfig /\ r_in = NoRow /\ r_row = NoRow
    /\ r_flags = <<>> /\ r_runs = 0 /\ r_applied = NoApplied

\* the six output columns of six written over those of row
WithSix(row, six) ==
    [row EXCEPT !.street = six.street, !.district = six.district, !.locality = six.locality,
                !.region = six.region, !.country = six.country, !.zip = six.zip]

\* CLEAN (pipeline.py:209-217): clean_value over the seven columns
RowClean ==
    /\ r_pc = "clean"
    /\ r_row' = [r_row EXCEPT !.street = clean_value(@), !.district = clean_value(@),
                              !.locality = clean_value(@), !.region = clean_value(@),
                              !.country = clean_value(@), !.zip = clean_value(@),
                              !.address = clean_value(@)]
    /\ r_pc' = "promote"
    /\ UNCHANGED <<r_cfg, r_in, r_flags, r_runs, r_applied>>
    /\ UNCHANGED <<cleanVars, valVars, jobVars, exVars, readVars, resolveVars, mergeVars, sampleVars, reportVars>>

\* PROMOTE_ADDRESS (pipeline.py:220-222)
RowPromote ==
    /\ r_pc = "promote"
    /\ r_row' = _promote_address_like(r_row)
    /\ r_pc' = "repair"
    /\ UNCHANGED <<r_cfg, r_in, r_flags, r_runs, r_applied>>
    /\ UNCHANGED <<cleanVars, valVars, jobVars, exVars, readVars, resolveVars, mergeVars, sampleVars, reportVars>>

\* REPAIR (pipeline.py:223-225)
RowRepair ==
    /\ r_pc = "repair"
    /\ r_row' = _repair_misaligned_row(r_row)
    /\ r_pc' = "extract"
    /\ UNCHANGED <<r_cfg, r_in, r_flags, r_runs, r_applied>>
    /\ UNCHANGED <<cleanVars, valVars, jobVars, exVars, readVars, resolveVars, mergeVars, sampleVars, reportVars>>

\* parsed_map.get(idx) or {} for the row: the row is parsed if it has an address
ParsedOf(row, cfg) ==
    IF AddressOf(row, cfg.libpostal_always) = None THEN NoParsed
    ELSE extract_from_address(AddressOf(row, cfg.libpostal_always), cfg.libpostal_url, cfg.reply)

\* EXTRACT and the use of the parsed address (pipeline.py:228-300)
RowExtract ==
    /\ r_pc = "extract"
    /\ r_row' = IF r_cfg.mode \in JobModes \/ r_cfg.street_from_address \/ r_cfg.libpostal_always
                THEN ApplyParsed(r_row, ParsedOf(r_row, r_cfg), r_cfg.mode, r_cfg.street_from_address)
                ELSE r_row
    /\ r_pc' = "normalize"
    /\ r_applied' = [before |-> r_row, parsed |-> ParsedOf(r_row, r_cfg)]
    /\ UNCHANGED <<r_cfg, r_in, r_flags, r_runs>>
    /\ UNCHANGED <<cleanVars, valVars, jobVars, exVars, readVars, resolveVars, mergeVars, sampleVars, reportVars>>

\* NORMALIZE (pipeline.py:303-313)
RowNormalize ==
    /\ r_pc = "normalize"
    /\ r_row' = WithSix(r_row, normalize_fields(r_row, r_cfg.fix_echo_locality_region))
    /\ r_pc' = "validate"
    /\ UNCHANGED <<r_cfg, r_in, r_flags, r_runs, r_applied>>
    /\ UNCHANGED <<cleanVars, valVars, jobVars, exVars, readVars, resolveVars, mergeVars, sampleVars, reportVars>>

\* VALIDATE (pipeline.py:316-341); the row is then written
RowValidate ==
    /\ r_pc = "validate"
    /\ \E o \in validate_fields(r_row, current_alpha2(r_row.country), ctx_validate,
                                ctx_fuzzy_threshold, gc_cities, locality_validate_cache) :
        /\ InSeq("bad_zip_format", o.flags) => zip_format_fail < MaxZipFail
        /\ r_row' = o.row
        /\ r_flags' = o.flags
        /\ locality_validate_cache' = o.cache
        /\ zip_format_fail' = IF InSeq("bad_zip_format", o.flags)
                              THEN zip_format_fail + 1 ELSE zip_format_fail
    /\ r_pc' = "done"
    /\ UNCHANGED <<r_cfg, r_in, r_runs, r_applied>>
    /\ UNCHANGED <<gc_cities, ctx_validate, ctx_fuzzy_threshold, v_call, v_ledger>>
    /\ UNCHANGED <<cleanVars, jobVars, exVars, readVars, resolveVars, mergeVars, sampleVars, reportVars>>

\* the next row of the input: the same job and process, so the same options
\* and the same module-level cache
ReadRow ==
    /\ r_pc = "done"
    /\ r_runs < MaxRowRuns
    /\ \E row \in RowInputs :
        /\ r_in' = row
        /\ r_row' = row
    /\ r_pc' = "clean"
    /\ r_flags' = <<>>
    /\ r_applied' = NoApplied
    /\ r_runs' = r_runs + 1
    /\ UNCHANGED r_cfg
    /\ UNCHANGED <<cleanVars, valVars, jobVars, exVars, readVars, resolveVars, mergeVars, sampleVars, reportVars>>

----------------------------------------------------------------------------
(* utils/io_utils.py: read_csv_chunks and _row_to_record                   *)

\* column names
S_street == <<"s", "t", "r", "e", "e", "t">>
S_district == <<"d", "i", "s", "t", "r", "i", "c", "t">>
S_locality == <<"l", "o", "c", "a", "l", "i", "t", "y">>
S_region == <<"r", "e", "g", "i", "o", "n">>
S_country == <<"c", "o", "u", "n", "t", "r", "y">>
S_zip == <<"z", "i", "p">>
S_address == <<"a", "d", "d", "r", "e", "s", "s">>
S_phone == <<"p", "h", "o", "n", "e">>
S_notes == <<"n", "o", "t", "e", "s">>
S_name == <<"n", "a", "m", "e">>
S_email == <<"e", "m", "a", "i", "l">>
S_ref == <<"r", "e", "f">>

TARGET_COLS == <<S_street, S_district, S_locality, S_region, S_country, S_zip, S_address>>

\* [h.strip() for h in raw]
_normalize_header(raw) == [i \in 1..Len(raw) |-> strip(raw[i])]

\* CONTACT_COL_RE.search(col): one of the keywords occurs in col, ignoring
\* case (full\s*name, first\s*name and last\s*name are occurrences of name)
ContactKeywords == {
    <<"e", "m", "a", "i", "l">>,
    <<"e", "-", "m", "a", "i", "l">>,
    <<"m", "a", "i", "l">>,
    <<"p", "h", "o", "n", "e">>,
    <<"m", "o", "b", "i", "l", "e">>,
    <<"t", "e", "l">>,
    <<"f", "a", "x">>,
    <<"c", "o", "n", "t", "a", "c", "t">>,
    <<"w", "h", "a", "t", "s", "a", "p", "p">>,
    <<"l", "i", "n", "e">>,
    <<"w", "e", "c", "h", "a", "t">>,
    <<"s", "k", "y", "p", "e">>,
    <<"n", "a", "m", "e">> }
CONTACT_COL_RE(col) == \E k \in ContactKeywords : Contains(lower(col), k)

\* EMAIL_RE.search(v): [A-Z0-9._%+\-]+ @ [A-Z0-9.\-]+ \. [A-Z]{2,}, ignoring case
EmailLocal == AsciiLetters \cup Digits \cup {".", "_", "%", "+", "-"}
EmailDomain == AsciiLetters \cup Digits \cup {".", "-"}
EMAIL_RE(v) ==
    \E a \in DOMAIN v, d \in DOMAIN v :
        /\ v[a] = "@" /\ v[d] = "." /\ a > 1 /\ d > a + 1 /\ d + 2 <= Len(v)
        /\ v[a - 1] \in EmailLocal
        /\ \A i \in (a + 1)..(d - 1) : v[i] \in EmailDomain
        /\ v[d + 1] \in AsciiLetters /\ v[d + 2] \in AsciiLetters

\* PHONE_RE.search(v): (?:\+?\d[\d \-()]{6,}\d)|(?:\b\d{8,}\b)
PhoneInner == Digits \cup {" ", "-", "(", ")"}
PHONE_RE(v) ==
    \/ \E i \in DOMAIN v, k \in DOMAIN v :
          /\ k >= i + 7 /\ IsDigit(v[i]) /\ IsDigit(v[k])
          /\ \A m \in (i + 1)..(k - 1) : v[m] \in PhoneInner
    \/ \E i \in DOMAIN v, k \in DOMAIN v :
          /\ k >= i + 7
          /\ \A m \in i..k : IsDigit(v[m])
          /\ (i = 1 \/ ~(IsAlnum(v[i - 1]) \/ v[i - 1] = "_"))
          /\ (k = Len(v) \/ ~(IsAlnum(v[k + 1]) \/ v[k + 1] = "_"))

\* the tokens of an empty cell (io_utils.py:53)
NullTokens == {
    <<"n", "a", "n">>,
    <<"n", "u", "l", "l">>,
    <<"n", "o", "n", "e">>,
    <<"n", "a">>,
    <<"n", "/", "a">>,
    <<"n", ".", "a", ".">>,
    <<"n", ".", "a">>,
    <<"n", " ", "a">>,
    <<"-">>,
    <<"em">> }

\* io_utils.py:58: a digit and a letter, or a comma
Addressy(v) ==
    \/ (\E i \in DOMAIN v : IsDigit(v[i])) /\ (\E i \in DOMAIN v : v[i] \in AsciiLetters)
    \/ \E i \in DOMAIN v : v[i] = ","

has_address_col(header) == \E i \in DOMAIN header : lower(strip(header[i])) = S_address
has_any_target(header) ==
    \E i \in DOMAIN header :
        lower(strip(header[i])) \in {S_street, S_district, S_locality, S_region, S_country, S_zip}

\* a variant of IsExtra without the screen of the cell's value
IsExtraUnscreened(row, header, i) ==
    /\ strip(header[i]) \notin Range(TARGET_COLS)
    /\ ~CONTACT_COL_RE(strip(header[i]))
    /\ strip(row[i]) # <<>>
    /\ lower(strip(row[i])) \notin NullTokens
    /\ Addressy(strip(row[i]))
\* the body of the loop of io_utils.py:46-60 lets cell i through
IsExtra(row, header, i) ==
    /\ strip(header[i]) \notin Range(TARGET_COLS)
    /\ ~CONTACT_COL_RE(strip(header[i]))
    /\ strip(row[i]) # <<>>
    /\ lower(strip(row[i])) \notin NullTokens
    /\ ~(EMAIL_RE(strip(row[i])) \/ PHONE_RE(strip(row[i])))
    /\ Addressy(strip(row[i]))

\* the cells of the first n columns that are let through, in column order
ExtraCells(row, header, n) ==
    LET idx == {i \in 1..n : IsExtra(row, header, i)} IN
    IF has_address_col(header) \/ ~has_any_target(header)
    THEN [k \in 1..Cardinality(idx) |-> strip(row[NthOf(idx, k)])]
    ELSE <<>>

\* f"{base}, {tail}".strip(", ") if tail else base
WithTail(base, tail) ==
    IF tail # <<>> THEN StripSet(base \o CommaSpace \o tail, {",", " "}) ELSE base

\* rec after the loop of io_utils.py:34-36: a later column of the same name
\* overwrites an earlier one
CellsByName(row, header, n) ==
    [col \in {strip(header[i]) : i \in 1..n} |->
        strip(row[MaxOf({i \in 1..n : strip(header[i]) = col})])]

_row_to_record(row, header) ==
    LET n == Min(Len(row), Len(header))
        rec == CellsByName(row, header, n)
        base == IF S_address \in DOMAIN rec THEN strip(rec[S_address]) ELSE <<>>
        tail == Join(ExtraCells(row, header, n), CommaSpace)
    IN  [col \in DOMAIN rec \cup Range(TARGET_COLS) |->
            IF col = S_address THEN WithTail(base, tail)
            ELSE IF col \in DOMAIN rec THEN rec[col]
            ELSE <<>>]

\* a variant of PadRow that leaves a short row short
PadRowNot(row, header) == row
\* io_utils.py:111-112: a short row is padded with empty cells
PadRow(row, header) ==
    IF Len(row) < Len(header) THEN row \o [i \in 1..(Len(header) - Len(row)) |-> <<>>] ELSE row

\* a variant of BufFull that compares with >
BufFullAbove(buf, chunksize) == Len(buf) > chunksize
\* io_utils.py:115
BufFull(buf, chunksize) == Len(buf) >= chunksize

\* the headers and the data rows of the input files of the model
ReadHeaders == {
    <<S_address, <<" ", "p", "h", "o", "n", "e", " ">>, S_notes>>,
    <<S_street, S_notes, S_name>>,
    <<S_notes, S_email, S_ref>>,
    <<<<"A", "d", "d", "r", "e", "s", "s">>, S_notes>> }
ReadRows == {
    <<>>,
    <<<<"1", "2", " ", "M", "a", "i", "n", " ", "S", "t">>>>,
    <<<<"S", "o", "i", " ", "9">>, <<"t", "e", "l", " ", "+", "6", "6", " ", "2", " ", "1", "2", "3", " ", "4", "5", "6", "7">>, <<" ", "U", "n", "i", "t", " ", "5", ",", " ", "B", "l", "d", "g", " ", "A">>>>,
    <<<<"t", "e", "l", " ", "0", "8", "1", "2", "3", "4", "5", "6", "7", "8">>, <<"A", "n", "n", " ", "L", "e", "e", " ", "2">>, <<"9", ",", " ", "a", "@", "b", ".", "c", "o">>>>,
    <<<<"n", "/", "a">>, <<"B", "k", "k">>, <<"M", "o", "o", " ", "3">>, <<"x", "1">>>> }
MaxReadRows == 3
MaxReadChunk == 3

ReadInit ==
    /\ rd_pc = "open"
    /\ rd_file \in {<<>>} \cup {<<h>> \o rows : h \in ReadHeaders, rows \in SeqsUpTo(ReadRows, MaxReadRows)}
    /\ rd_chunksize \in 1..MaxReadChunk
    /\ rd_header = <<>>
    /\ rd_pos = 0
    /\ rd_buf = <<>>
    /\ rd_batches = <<>>

ReadIdle ==
    /\ rd_pc = "idle"
    /\ rd_file = <<>>
    /\ rd_chunksize = 1
    /\ rd_header = <<>>
    /\ rd_pos = 0
    /\ rd_buf = <<>>
    /\ rd_batches = <<>>

\* io_utils.py:100-108: the header is read; an empty file ends the generator
ReadHeader ==
    /\ rd_pc = "open"
    /\ IF rd_file = <<>>
       THEN rd_pc' = "done" /\ UNCHANGED <<rd_header, rd_pos>>
       ELSE rd_pc' = "rows" /\ rd_header' = _normalize_header(rd_file[1]) /\ rd_pos' = 1
    /\ UNCHANGED <<rd_file, rd_chunksize, rd_buf, rd_batches>>
    /\ UNCHANGED <<cleanVars, valVars, jobVars, exVars, rowVars, resolveVars, mergeVars, sampleVars, reportVars>>

\* io_utils.py:109-119: one row is read, padded, made a record and buffered;
\* a full buffer is yielded as a data frame and cleared
ReadRecord ==
    /\ rd_pc = "rows"
    /\ rd_pos < Len(rd_file)
    /\ LET rec == _row_to_record(PadRow(rd_file[rd_pos + 1], rd_header), rd_header)
           buf == Append(rd_buf, rec)
       IN  IF BufFull(buf, rd_chunksize)
           THEN rd_batches' = Append(rd_batches, buf) /\ rd_buf' = <<>>
           ELSE rd_buf' = buf /\ UNCHANGED rd_batches
    /\ rd_pos' = rd_pos + 1
    /\ UNCHANGED <<rd_pc, rd_file, rd_chunksize, rd_header>>
    /\ UNCHANGED <<cleanVars, valVars, jobVars, exVars, rowVars, resolveVars, mergeVars, sampleVars, reportVars>>

\* io_utils.py:120-122: the reader is exhausted; a non-empty buffer is yielded
\* and the generator returns, its locals gone
ReadEnd ==
    /\ rd_pc = "rows"
    /\ rd_pos = Len(rd_file)
    /\ rd_batches' = IF rd_buf # <<>> THEN Append(rd_batches, rd_buf) ELSE rd_batches
    /\ rd_buf' = <<>>
    /\ rd_pc' = "done"
    /\ UNCHANGED <<rd_file, rd_chunksize, rd_header, rd_pos>>
    /\ UNCHANGED <<cleanVars, valVars, jobVars, exVars, rowVars, resolveVars, mergeVars, sampleVars, reportVars>>

----------------------------------------------------------------------------
(* parsers/address_extract.py: the requests of one extract_from_address    *)

\* str.replace(old, new)
RECURSIVE Replace(_, _, _)
Replace(s, old, new) ==
    IF s = <<>> THEN <<>>
    ELSE IF StartsWith(s, old) THEN new \o Replace(SubSeq(s, Len(old) + 1, Len(s)), old, new)
    ELSE <<Head(s)>> \o Replace(Tail(s), old, new)

\* what the service does with a request: the request fails or times out
\* (requests raises), or a response comes back with a status and a body.  A
\* body is JSON of a list of label/value items, of an object, of anything
\* else, or no JSON at all; `labels` are its values under the labels that
\* extract_from_address knows, `other` says that it has an entry under any
\* other label or key
Raises == [kind |-> "raise"]
Http(status, json, labels, other) ==
    [kind |-> "http", status |-> status, json |-> json, labels |-> labels, other |-> other]
Bodies == {
    <<"list", Labels1, FALSE>>, <<"list", NoLabels, FALSE>>, <<"list", NoLabels, TRUE>>,
    <<"dict", Labels2, FALSE>>, <<"dict", NoLabels, TRUE>>,
    <<"scalar", NoLabels, FALSE>>, <<"invalid", NoLabels, FALSE>> }
Statuses == {200, 400, 404, 503}
Responses == {Raises} \cup {Http(s, b[1], b[2], b[3]) : s \in Statuses, b \in Bodies}

\* a dict of parsed labels: the known ones, and whether there is any other
ParsedDict(labels, other) == [labels |-> labels, other |-> other]
EmptyDict == ParsedDict(NoLabels, FALSE)

\* address_extract.py:41-46 and 50-55: data = r.json() of a 200; a list gives
\* the dict of its items, an object is returned as it is, anything else falls
\* through to the return {} of line 60, and a body that is no JSON raises
\* inside the try
BodyDict(response) ==
    IF response.json \in {"list", "dict"} THEN ParsedDict(response.labels, response.other)
    ELSE EmptyDict

Urls == { <<"h", "/", "p", "a", "r", "s", "e", "r">>,
          <<"h", "/", "p", "a", "r", "s", "e">>,
          None }
ResolveAddresses == {Addr1, <<" ">>}

ResolveInit ==
    /\ q_pc = "start"
    /\ q_address \in ResolveAddresses
    /\ q_url \in Urls
    /\ q_primary \in Responses
    /\ q_alt \in Responses
    /\ q_calls = <<>>
    /\ q_last = None
    /\ q_parsed = EmptyDict
    /\ q_result = NoParsed

ResolveIdle ==
    /\ q_pc = "idle"
    /\ q_address = <<>>
    /\ q_url = None
    /\ q_primary = Raises
    /\ q_alt = Raises
    /\ q_calls = <<>>
    /\ q_last = None
    /\ q_parsed = EmptyDict
    /\ q_result = NoParsed

\* address_extract.py:84-93: an empty address returns {}; with a URL the
\* service is asked
ResolveStart ==
    /\ q_pc = "start"
    /\ q_pc' = IF strip(q_address) = <<>> THEN "done"
               ELSE IF q_url # None THEN "primary" ELSE "finish"
    /\ UNCHANGED <<q_address, q_url, q_primary, q_alt, q_calls, q_last, q_parsed, q_result>>
    /\ UNCHANGED <<cleanVars, valVars, jobVars, exVars, rowVars, readVars, mergeVars, sampleVars, reportVars>>

\* address_extract.py:38-47: the post to the URL; a 200 ends the function, a
\* 400 or 404 goes on to the alternate, an exception or another status gives {}
PostPrimary ==
    /\ q_pc = "primary"
    /\ q_calls' = Append(q_calls, q_url)
    /\ q_last' = q_primary
    /\ IF q_primary.kind = "raise" THEN q_pc' = "finish" /\ q_parsed' = EmptyDict
       ELSE IF q_primary.status = 200 /\ q_primary.json \in {"list", "dict", "invalid"}
            THEN q_pc' = "finish" /\ q_parsed' = BodyDict(q_primary)
       ELSE IF q_primary.status \in {400, 404} THEN q_pc' = "alt" /\ UNCHANGED q_parsed
       ELSE q_pc' = "finish" /\ q_parsed' = EmptyDict
    /\ UNCHANGED <<q_address, q_url, q_primary, q_alt, q_result>>
    /\ UNCHANGED <<cleanVars, valVars, jobVars, exVars, rowVars, readVars, mergeVars, sampleVars, reportVars>>

\* address_extract.py:48-60: the post to url.replace("/parser", "/parse")
PostAlternate ==
    /\ q_pc = "alt"
    /\ q_calls' = Append(q_calls, Replace(q_url, <<"/", "p", "a", "r", "s", "e", "r">>,
                                          <<"/", "p", "a", "r", "s", "e">>))
    /\ q_last' = q_alt
    /\ q_parsed' = IF q_alt.kind = "http" /\ q_alt.status = 200 THEN BodyDict(q_alt)
                   ELSE EmptyDict
    /\ q_pc' = "finish"
    /\ UNCHANGED <<q_address, q_url, q_primary, q_alt, q_result>>
    /\ UNCHANGED <<cleanVars, valVars, jobVars, exVars, rowVars, readVars, mergeVars, sampleVars, reportVars>>

\* address_extract.py:94-112: an empty parsed is replaced by the local
\* heuristic, then the known labels are renamed to our keys
ResolveFinish ==
    /\ q_pc = "finish"
    /\ q_result' = Relabel(IF q_parsed = EmptyDict THEN _fallback_regex(strip(q_address))
                           ELSE q_parsed.labels)
    /\ q_pc' = "done"
    /\ UNCHANGED <<q_address, q_url, q_primary, q_alt, q_calls, q_last, q_parsed>>
    /\ UNCHANGED <<cleanVars, valVars, jobVars, exVars, rowVars, readVars, mergeVars, sampleVars, reportVars>>

----------------------------------------------------------------------------
(* pipeline.py: the merge of the profiles and the user rules               *)

\* A document holds a scalar (fix_echo_locality_region, "unset" if the key is
\* absent), a list (stop_country_suffixes), a map (locality_aliases) and a map
\* of maps (locality_aliases_by_country).
Doc(flag, stop, aliases, by_country) ==
    [fix_echo_locality_region |-> flag, stop_country_suffixes |-> stop,
     locality_aliases |-> aliases, locality_aliases_by_country |-> by_country]
EmptyDoc == Doc("unset", <<>>, << >>, << >>)

\* the profile files of the model; a missing or empty file is the empty document
ProfileDocs ==
    { EmptyDoc,
      Doc("off", <<" kingdom">>, ("bkk" :> "Bangkok"), ("TH" :> ("bkk" :> "Bangkok"))),
      Doc("unset", <<" republic">>, ("bkk" :> "Krung Thep") @@ ("kt" :> "Bangkok"),
          ("TH" :> ("kt" :> "Bangkok"))),
      Doc("on", <<>>, << >>, ("TH" :> ("bkk" :> "Bang Kho Laem")) @@ ("VN" :> ("hcm" :> "Saigon"))) }

\* what _load_user_rules can return: flags and locality aliases (pipeline.py:92-102)
UserRules ==
    { EmptyDoc,
      Doc("on", <<>>, ("bkk" :> "Bangkok City"), << >>),
      Doc("off", <<>>, ("cnx" :> "Chiang Mai"), << >>) }

\* the number of profiles of a job
MaxProfiles == 2

\* the loop body of pipeline.py:50-55 and 181-187: a map is updated with
\* dict.update, a list extended, a scalar assigned
Update(merged, data) ==
    [fix_echo_locality_region |->
        IF data.fix_echo_locality_region # "unset" THEN data.fix_echo_locality_region
        ELSE merged.fix_echo_locality_region,
     stop_country_suffixes |-> merged.stop_country_suffixes \o data.stop_country_suffixes,
     locality_aliases |-> data.locality_aliases @@ merged.locality_aliases,
     locality_aliases_by_country |->
        data.locality_aliases_by_country @@ merged.locality_aliases_by_country]

MergeInit ==
    /\ m_pc = "profiles"
    /\ m_profiles \in UNION {[1..n -> ProfileDocs] : n \in 0..MaxProfiles}
    /\ m_user_rules \in UserRules
    /\ m_next = 1
    /\ prof = EmptyDoc

MergeIdle ==
    /\ m_pc = "idle" /\ m_profiles = <<>> /\ m_user_rules = EmptyDoc /\ m_next = 1
    /\ prof = EmptyDoc

\* _load_profiles: one profile of the list
LoadProfile ==
    /\ m_pc = "profiles"
    /\ m_next <= Len(m_profiles)
    /\ prof' = Update(prof, m_profiles[m_next])
    /\ m_next' = m_next + 1
    /\ UNCHANGED <<m_pc, m_profiles, m_user_rules>>
    /\ UNCHANGED <<cleanVars, valVars, jobVars, exVars, rowVars, readVars, resolveVars, sampleVars, reportVars>>

\* _load_profiles returns; run_job loads the user rules
ProfilesLoaded ==
    /\ m_pc = "profiles"
    /\ m_next > Len(m_profiles)
    /\ m_pc' = "rules"
    /\ UNCHANGED <<m_profiles, m_user_rules, m_next, prof>>
    /\ UNCHANGED <<cleanVars, valVars, jobVars, exVars, rowVars, readVars, resolveVars, sampleVars, reportVars>>

\* run_job: the user rules are merged into prof (pipeline.py:181-188)
MergeUserRules ==
    /\ m_pc = "rules"
    /\ prof' = Update(prof, m_user_rules)
    /\ m_pc' = "done"
    /\ UNCHANGED <<m_profiles, m_user_rules, m_next>>
    /\ UNCHANGED <<cleanVars, valVars, jobVars, exVars, rowVars, readVars, resolveVars, sampleVars, reportVars>>

----------------------------------------------------------------------------
(* utils/loggingx.py: collect_sample and flush_samples                     *)

COLUMNS == <<"street", "district", "locality", "region", "country", "zip">>
CATEGORIES == <<"clean", "normalize", "extracted", "removed", "fuzzy_fixed">>
PER_COLUMN_LIMIT == 20
\* the cap of a bucket in collect_sample
BucketCap == 6

\* str(v) of a cell or of None
Str(v) == IF v = None THEN <<"N", "o", "n", "e">> ELSE v

Example(row_id, before, after, change_type) ==
    [row |-> row_id, before |-> Str(before), after |-> Str(after), type |-> change_type]

\* _ensure_struct
_ensure_struct(samples_dict) ==
    IF samples_dict = << >>
    THEN [col \in Range(COLUMNS) |-> [cat \in Range(CATEGORIES) |-> <<>>]]
    ELSE samples_dict

\* collect_sample: ctx.samples after the call
collect_sample(column, change_type, before, after, row_id, samples_dict) ==
    IF column \notin Range(COLUMNS) \/ change_type \notin Range(CATEGORIES) THEN samples_dict
    ELSE IF Len(_ensure_struct(samples_dict)[column][change_type]) < BucketCap
         THEN [_ensure_struct(samples_dict) EXCEPT
                  ![column][change_type] = Append(@, Example(row_id, before, after, change_type))]
    ELSE _ensure_struct(samples_dict)

\* a variant of target_per_cat for one category less
target_per_cat_wide == Max(1, PER_COLUMN_LIMIT \div (Len(CATEGORIES) - 1))

\* flush_samples, line 52
target_per_cat == Max(1, PER_COLUMN_LIMIT \div Len(CATEGORIES))

\* lines 55-56: the first target_per_cat examples of every category
RECURSIVE Primary(_, _)
Primary(buckets, n) ==
    IF n = 0 THEN <<>>
    ELSE Primary(buckets, n - 1)
         \o SubSeq(buckets[CATEGORIES[n]], 1, Min(target_per_cat, Len(buckets[CATEGORIES[n]])))

\* lines 65-71: the examples of one pool that are not in already are added
\* until the limit is reached
RECURSIVE BackfillPool(_, _, _, _)
BackfillPool(picked, pool, already, i) ==
    IF i > Len(pool) THEN picked
    ELSE IF pool[i] \in already THEN BackfillPool(picked, pool, already, i + 1)
    ELSE IF Len(picked) + 1 >= PER_COLUMN_LIMIT THEN Append(picked, pool[i])
    ELSE BackfillPool(Append(picked, pool[i]), pool, already, i + 1)

\* lines 58-73: the pools in the order of CATEGORIES
RECURSIVE Backfill(_, _, _)
Backfill(picked, buckets, n) ==
    IF n > Len(CATEGORIES) \/ Len(picked) >= PER_COLUMN_LIMIT THEN picked
    ELSE Backfill(BackfillPool(picked, buckets[CATEGORIES[n]], Range(picked), 1), buckets, n + 1)

\* the examples written for one column
Picked(buckets) == Backfill(Primary(buckets, Len(CATEGORIES)), buckets, 1)

\* flush_samples: nothing is written for an empty dict
flush_samples(samples_dict) ==
    IF samples_dict = << >> THEN NoFile
    ELSE [col \in Range(COLUMNS) |-> Picked(samples_dict[col])]

\* the columns and the kinds of change of the calls of the model; "address"
\* and "unchanged" are not collected
SampleColumns == {"locality", "zip"}
ChangeTypes == Range(CATEGORIES) \cup {"unchanged"}

\* the row ids of a call: the serial number of the example in its bucket; a
\* late "clean" example may repeat row 1
RowIds(samples_dict, column, change_type) ==
    IF column \notin Range(COLUMNS) \/ change_type \notin Range(CATEGORIES) THEN {1}
    ELSE {Len(_ensure_struct(samples_dict)[column][change_type]) + 1}
         \cup (IF change_type = "clean"
                  /\ Len(_ensure_struct(samples_dict)[column][change_type]) >= target_per_cat
               THEN {1} ELSE {})

SampleInit ==
    /\ s_pc = "collect"
    /\ s_column \in SampleColumns
    /\ samples = << >>
    /\ s_doc = NoFile

SampleIdle ==
    /\ s_pc = "idle" /\ s_column = "" /\ samples = << >> /\ s_doc = NoFile

\* one call of collect_sample by run_job; "extracted" passes None as before
\* (pipeline.py:293)
CollectSample ==
    /\ s_pc = "collect"
    /\ \E column \in {s_column, "address"}, change_type \in ChangeTypes :
         \E row_id \in RowIds(samples, column, change_type) :
            samples' = collect_sample(column, change_type,
                                      IF change_type = "extracted" THEN None ELSE <<"a">>,
                                      <<"b">>, row_id, samples)
    /\ UNCHANGED <<s_pc, s_column, s_doc>>
    /\ UNCHANGED <<cleanVars, valVars, jobVars, exVars, rowVars, readVars, resolveVars, mergeVars, reportVars>>

\* the end of run_job (pipeline.py:370)
FlushSamples ==
    /\ s_pc = "collect"
    /\ s_doc' = flush_samples(samples)
    /\ s_pc' = "flushed"
    /\ UNCHANGED <<s_column, samples>>
    /\ UNCHANGED <<cleanVars, valVars, jobVars, exVars, rowVars, readVars, resolveVars, mergeVars, reportVars>>

----------------------------------------------------------------------------
(* utils/report.py: the counters of the report                             *)

FIELDS == <<"street", "district", "locality", "region", "country", "zip">>
CATS == <<"clean", "normalize", "extracted", "removed", "fuzzy_fixed", "unchanged">>
CounterKeys ==
    {"total_changed", "clean", "normalize", "extracted", "removed", "fuzzy_fixed", "unchanged"}

_empty_counter == [k \in CounterKeys |-> 0]

\* init_report: the counters
init_report == [field \in Range(FIELDS) |-> _empty_counter]

\* the two increments of update_report for one counter
Counted(c, change_type) ==
    [k \in CounterKeys |->
        c[k] + (IF k = change_type /\ change_type \in Range(CATS) THEN 1 ELSE 0)
             + (IF k = "total_changed" /\ change_type # "unchanged" THEN 1 ELSE 0)]

\* a variant that counts an unchanged field as a change
update_report_every(report_dict, field, change_type) ==
    IF field \notin Range(FIELDS) THEN report_dict
    ELSE [report_dict EXCEPT ![field] =
             [Counted(@, change_type) EXCEPT
                 !.total_changed = report_dict[field].total_changed + 1]]

\* update_report
update_report(report_dict, field, change_type) ==
    IF field \notin Range(FIELDS) THEN report_dict
    ELSE [report_dict EXCEPT ![field] = Counted(@, change_type)]

\* the cap of the number of update_report calls of a job
MaxReportCalls == 3

ReportInit ==
    /\ report_data = init_report
    /\ rp_before = init_report
    /\ rp_calls = 0

ReportIdle ==
    /\ report_data = << >> /\ rp_before = << >> /\ rp_calls = 0

\* one call of update_report by run_job
Reported(field, change_type) ==
    /\ rp_calls < MaxReportCalls
    /\ report_data' = update_report(report_data, field, change_type)
    /\ rp_before' = report_data
    /\ rp_calls' = rp_calls + 1
    /\ UNCHANGED <<cleanVars, valVars, jobVars, exVars, rowVars, readVars, resolveVars, mergeVars, sampleVars>>

\* CLEAN (pipeline.py:210-217): a changed cell; the address counts as street
ReportClean ==
    \E col \in Range(FIELDS) \cup {"address"} :
        Reported(IF col # "address" THEN col ELSE "street", "clean")

\* EXTRACT (pipeline.py:279-280, 293-294)
ReportExtracted ==
    \E target \in Range(FIELDS) : Reported(target, "extracted")

\* NORMALIZE (pipeline.py:306-313)
ReportNormalize ==
    \E col \in Range(OUTPUT_COLS), change_type \in {"removed", "normalize", "unchanged"} :
        Reported(col, change_type)

\* VALIDATE (pipeline.py:331-336)
ReportValidate ==
    \E col \in {"locality", "region"} : Reported(col, "fuzzy_fixed")

----------------------------------------------------------------------------
(* Specifications                                                          *)

InitClean == CleanInit /\ ValIdle /\ JobIdle /\ ExtractIdle /\ RowIdle /\ ReadIdle /\ ResolveIdle /\ MergeIdle /\ SampleIdle /\ ReportIdle
NextClean == CleanOnce \/ CleanTwice
SpecClean == InitClean /\ [][NextClean]_vars

InitValidate == ValInit /\ CleanIdle /\ JobIdle /\ ExtractIdle /\ RowIdle /\ ReadIdle /\ ResolveIdle /\ MergeIdle /\ SampleIdle /\ ReportIdle
NextValidate == ValidateRow \/ NewJob \/ NewProcess
SpecValidate == InitValidate /\ [][NextValidate]_vars

InitJob == JobInit /\ CleanIdle /\ ValIdle /\ ExtractIdle /\ RowIdle /\ ReadIdle /\ ResolveIdle /\ MergeIdle /\ SampleIdle /\ ReportIdle
NextJob == JobStart \/ ProcessChunk \/ JobEnd
SpecJob == InitJob /\ [][NextJob]_vars

InitExtract == ExtractInit /\ CleanIdle /\ ValIdle /\ JobIdle /\ RowIdle /\ ReadIdle /\ ResolveIdle /\ MergeIdle /\ SampleIdle /\ ReportIdle
NextExtract ==
    \/ BuildQueue
    \/ \E w \in 1..MaxWorkers : TakeTask(w)
    \/ \E w \in 1..MaxWorkers : TestSession(w)
    \/ \E w \in 1..MaxWorkers : CreateSession(w)
    \/ \E w \in 1..MaxWorkers : ReturnSession(w)
    \/ \E w \in 1..MaxWorkers : CompleteTask(w)
    \/ CollectResult
    \/ JoinPool
    \/ ParseNext
    \/ EndLoop
    \/ ApplyNext
SpecExtract == InitExtract /\ [][NextExtract]_vars

InitRow == RowInit /\ CleanIdle /\ JobIdle /\ ExtractIdle /\ ReadIdle /\ ResolveIdle /\ MergeIdle /\ SampleIdle /\ ReportIdle
NextRow ==
    \/ RowClean
    \/ RowPromote
    \/ RowRepair
    \/ RowExtract
    \/ RowNormalize
    \/ RowValidate
    \/ ReadRow
SpecRow == InitRow /\ [][NextRow]_vars

InitRead == ReadInit /\ CleanIdle /\ ValIdle /\ JobIdle /\ ExtractIdle /\ RowIdle /\ ResolveIdle /\ MergeIdle /\ SampleIdle /\ ReportIdle
NextRead == ReadHeader \/ ReadRecord \/ ReadEnd
SpecRead == InitRead /\ [][NextRead]_vars

InitResolve ==
    ResolveInit /\ CleanIdle /\ ValIdle /\ JobIdle /\ ExtractIdle /\ RowIdle /\ ReadIdle /\ MergeIdle /\ SampleIdle /\ ReportIdle
NextResolve == ResolveStart \/ PostPrimary \/ PostAlternate \/ ResolveFinish
SpecResolve == InitResolve /\ [][NextResolve]_vars

InitMerge ==
    MergeInit /\ CleanIdle /\ ValIdle /\ JobIdle /\ ExtractIdle /\ RowIdle /\ ReadIdle /\ ResolveIdle /\ SampleIdle /\ ReportIdle
NextMerge == LoadProfile \/ ProfilesLoaded \/ MergeUserRules
SpecMerge == InitMerge /\ [][NextMerge]_vars

InitSample ==
    SampleInit /\ CleanIdle /\ ValIdle /\ JobIdle /\ ExtractIdle /\ RowIdle /\ ReadIdle /\ ResolveIdle /\ MergeIdle /\ ReportIdle
NextSample == CollectSample \/ FlushSamples
SpecSample == InitSample /\ [][NextSample]_vars

InitReport ==
    ReportInit /\ CleanIdle /\ ValIdle /\ JobIdle /\ ExtractIdle /\ RowIdle /\ ReadIdle /\ ResolveIdle /\ MergeIdle /\ SampleIdle
NextReport == ReportClean \/ ReportExtracted \/ ReportNormalize \/ ReportValidate
SpecReport == InitReport /\ [][NextReport]_vars

----------------------------------------------------------------------------
(* Claims                                                                  *)

\* C1: for every batch and every concurrency N >= 1 the map idx -> parsed
\* result left by the extraction equals the map a single worker leaves, under
\* every interleaving of the workers, the reply of the service being a function
\* of the address text.
C1_SameAsSingleWorker ==
    x_pc = "joined" => parsed_map = SingleWorkerMap(to_parse, x_service)

\* two workers have parsed two items, the second finishing before the first,
\* the session left in the global created by the second worker
C1_Witness ==
    /\ x_pc = "joined"
    /\ x_concurrency = 2
    /\ Len(to_parse) = 2
    /\ x_disorder
    /\ _session = <<"session", 2>>
    /\ DOMAIN parsed_map = {1, 2}

\* C2: Value Cleaner idempotence: clean_value(clean_value(s)) = clean_value(s)
\* for every input s, including inputs whose cleaned form is a null-like token.
C2_CleanIdempotent == cv_pc = "twice" => cv_twice = cv_once

C5_OffPassThrough ==
    (v_call.active /\ v_call.validate = "off") =>
        /\ v_call.row_out = v_call.row_in
        /\ v_call.flags = <<>>
        /\ zip_format_fail = v_call.fail_before

\* C6: in validation mode "strict" the validator only reports: whatever was
\* validated earlier in the process, the locality and the region returned are
\* the ones passed in.
C6_StrictOnlyReports ==
    (v_call.active /\ v_call.validate = "strict") =>
        /\ v_call.row_out.locality = v_call.row_in.locality
        /\ v_call.row_out.region = v_call.row_in.region

\* C7: Scenario 4: with validate = "loose" and threshold 85, locality
\* "Bangkog" of a country whose reference contains "Bangkok" is repaired to
\* "Bangkok" and flagged locality_fuzzy_fixed, whatever else the reference
\* holds (here on a first validation of the process, the cache empty).
C7_Scenario4Loose ==
    (/\ v_call.active
     /\ v_call.validate = "loose"
     /\ v_call.fuzzy_threshold = 85
     /\ v_call.alpha2 = A2_TH
     /\ v_call.row_in.locality = S_Bangkog
     /\ v_call.cache_before = EmptyCache) =>
        /\ v_call.row_out.locality = S_Bangkok
        /\ InSeq("locality_fuzzy_fixed", v_call.flags)

\* the row of the last call has a zip and its country a configured zip pattern
ZipPatternCall ==
    /\ v_call.active
    /\ v_call.row_in.zip # None
    /\ v_call.alpha2 # None
    /\ zip_patterns(v_call.alpha2) # None

\* what C8 says of a call whose zip is checked against pattern pat
ZipContract(pat) ==
    IF FullMatch(pat, strip(v_call.row_in.zip))
    THEN /\ ~InSeq("bad_zip_format", v_call.flags)
         /\ v_call.row_out.zip = v_call.row_in.zip
    ELSE /\ InSeq("bad_zip_format", v_call.flags)
         /\ v_call.validate = "strict" => v_call.row_out.zip = None
         /\ v_call.validate = "loose" => v_call.row_out.zip = v_call.row_in.zip

C9_FuzzyMonotone ==
    \A e1 \in v_ledger, e2 \in v_ledger :
        (e1[2] /\ e2[1] <= e1[1]) => e2[2]

\* C3: echo suppression.  Every row that has left the pipeline (extraction,
\* normalization and validation done) whose locality and region are both
\* non-empty and equal ignoring case and diacritics has an empty region, that
\* is: no such row leaves with the two equal, whatever the options of the job.
C3_EchoSuppressed ==
    r_pc = "done" =>
        ~(/\ FoldKey(r_row.locality) # <<>>
          /\ FoldKey(r_row.region) # <<>>
          /\ FoldKey(r_row.locality) = FoldKey(r_row.region))

\* a record is canonical: its country is the name the country reference gives
\* it, its locality is the name of a city of that country in the city
\* reference, and its zip matches the pattern of the country
CanonicalRecord(row, cities) ==
    /\ row.country # None
    /\ _normalize_country(row.country).name = row.country
    /\ \E i \in DOMAIN cities :
          /\ cities[i].countrycode = current_alpha2(row.country)
          /\ cities[i].name = row.locality
    /\ zip_patterns(current_alpha2(row.country)) # None
    /\ Compiles(zip_patterns(current_alpha2(row.country)))
    /\ FullMatch(zip_patterns(current_alpha2(row.country)), row.zip)

\* C10: round trip.  A canonical record comes out of a full pass (clean,
\* promote, repair, normalize, validate) with its six fields unchanged, in
\* each of the validation modes off, loose and strict.  The record has no
\* address text and none is composed for it, so that nothing is extracted.
C10_RoundTrip ==
    (/\ r_pc = "done"
     /\ CanonicalRecord(r_in, gc_cities)
     /\ AddressOf(r_in, r_cfg.libpostal_always) = None) =>
        \A n \in DOMAIN OUTPUT_COLS : r_row[OUTPUT_COLS[n]] = r_in[OUTPUT_COLS[n]]

\* C11: scenario 2.  For the address "77/1, Sukhumvit Road, Bangkok, 10110,
\* Thailand" with the six fields empty, mode extract-all-to-fill and the
\* parsing service unreachable, the row after the use of the parsed address
\* has zip "10110", country "Thailand", the second-to-last comma segment of
\* the address as locality, and a street that contains "77/1" and
\* "Sukhumvit Road".
C11_Scenario2 ==
    (/\ r_pc = "normalize"
     /\ r_in = InRow(None, None, None, None, None, None, S_Scenario2, None)
     /\ r_cfg.mode = "extract-all-to-fill"
     /\ ~r_cfg.street_from_address
     /\ ~r_cfg.libpostal_url \/ r_cfg.reply = NoReply) =>
        /\ r_row.zip = S_10110
        /\ r_row.country = S_Thailand
        /\ r_row.locality = strip(RunsOf(S_Scenario2, {","})[Len(RunsOf(S_Scenario2, {","})) - 1])
        /\ Contains(r_row.street, <<"7", "7", "/", "1">>)
        /\ Contains(r_row.street, <<"S", "u", "k", "h", "u", "m", "v", "i", "t", " ", "R", "o", "a", "d">>)

\* C12: scenario 3.  When the rules document has a synonym K -> V, a region
\* whose cleaned value equals K ignoring case is normalized to V: the row
\* (nothing extracted for it) leaves NORMALIZE with region V.
C12_Scenario3 ==
    \A K \in DOMAIN rules_document.synonyms :
        (/\ r_pc = "validate"
         /\ AddressOf(r_in, r_cfg.libpostal_always) = None
         /\ lower(clean_value(r_in.region)) = lower(K)) =>
            r_row.region = rules_document.synonyms[K]

\* the targets of the loop of pipeline.py:282, and for the row whose parsed
\* address was just used: the value the parsed address has for a target, the
\* guard against the person's name, and what the fill policy gives
ApplyTargetNames == {"street", "locality", "district", "region", "country", "zip"}
C13_Applied ==
    r_pc = "normalize" /\ r_applied.parsed # NoParsed /\ ~r_cfg.street_from_address
C13_ParsedValue(target) ==
    CASE target = "street" -> _compose_street(None, r_applied.parsed)
      [] target = "locality" -> r_applied.parsed.city
      [] target = "district" -> r_applied.parsed.suburb
      [] target = "region" -> r_applied.parsed.state
      [] target = "country" -> r_applied.parsed.country
      [] target = "zip" -> r_applied.parsed.zip
C13_NameGuard(target) ==
    /\ target \in {"locality", "region"}
    /\ strip(r_applied.before.fullname) # None
    /\ FoldKey(C13_ParsedValue(target)) = FoldKey(strip(r_applied.before.fullname))
C13_Expected(target) ==
    IF \/ C13_ParsedValue(target) = None
       \/ C13_NameGuard(target)
       \/ (r_cfg.mode = "fill-missing-only" /\ r_applied.before[target] # None)
    THEN r_applied.before[target]
    ELSE C13_ParsedValue(target)
C13_Echo ==
    /\ FoldKey(C13_Expected("locality")) # <<>>
    /\ FoldKey(C13_Expected("locality")) = FoldKey(C13_Expected("region"))

\* C13 as stated: with street-from-address off, after a parsed result is
\* applied every target field equals the parsed value when the mode is
\* extract-all-to-fill or the field was empty, and its previous value when the
\* mode is fill-missing-only and the field was populated.
C13_FillPolicyAll ==
    C13_Applied =>
        \A target \in ApplyTargetNames :
            r_row[target] = IF r_cfg.mode = "extract-all-to-fill" \/ r_applied.before[target] = None
                            THEN C13_ParsedValue(target)
                            ELSE r_applied.before[target]

\* C13: result application policy with street-from-address off.  A target
\* for which the parsed result has a value that the guard against the
\* person's name does not discard equals that value when the mode is
\* extract-all-to-fill or the field was empty, and its previous value when the
\* mode is fill-missing-only and the field was populated; a target for which
\* the parsed result has no value (or a discarded one) keeps its previous
\* value; and the region is emptied when, after this, it equals the locality
\* ignoring case and diacritics.
C13_FillPolicy ==
    C13_Applied =>
        /\ \A target \in ApplyTargetNames \ {"region"} : r_row[target] = C13_Expected(target)
        /\ r_row.region = IF C13_Echo THEN None ELSE C13_Expected("region")

\* a populated locality is kept in fill-missing-only mode although the parsed
\* address has another city, while the empty street is filled
C13_Witness ==
    /\ C13_Applied
    /\ r_cfg.mode = "fill-missing-only"
    /\ r_applied.before.locality # None
    /\ r_applied.parsed.city \notin {None, r_applied.before.locality}
    /\ r_row.locality = r_applied.before.locality
    /\ r_applied.before.street = None
    /\ r_row.street = C13_ParsedValue("street")
    /\ r_row.street # None

\* the row whose parsed address was just used in street-only mode
C14_Applied ==
    r_pc = "normalize" /\ r_applied.parsed # NoParsed /\ r_cfg.street_from_address

\* C14: street-only mode.  When street-from-address is set, the use of a
\* parsed result leaves a non-empty street as it was and gives an empty street
\* the composition of road, house number and unit; no other canonical field
\* takes a value from the parsed result: district, locality, country and zip
\* are unchanged, and so is the region unless it is emptied because it equals
\* the locality ignoring case and diacritics.
C14_StreetOnly ==
    C14_Applied =>
        /\ r_row.street = IF r_applied.before.street # None THEN r_applied.before.street
                          ELSE WithUnit(Join(NonEmpty(<<r_applied.parsed.road,
                                                        r_applied.parsed.house_number>>),
                                             CommaSpace),
                                        r_applied.parsed.unit)
        /\ \A target \in ApplyTargetNames \ {"street", "region"} :
              r_row[target] = r_applied.before[target]
        /\ r_row.region \in {r_applied.before.region, None}
        /\ r_row.region # r_applied.before.region =>
              FoldKey(r_applied.before.region) = FoldKey(r_applied.before.locality)

\* a populated street is kept although the parsed address composes another
\* one, and a populated locality is kept although the parsed address has a city
C14_Witness ==
    /\ C14_Applied
    /\ r_applied.before.street # None
    /\ r_applied.parsed.road \notin {None, r_applied.before.street}
    /\ r_applied.parsed.city # None
    /\ r_row.street = r_applied.before.street
    /\ r_row.locality = r_applied.before.locality

\* the records the reader has made so far, in the order it made them, and
\* the data rows it has consumed
RECURSIVE Flatten(_)
Flatten(seqs) == IF seqs = <<>> THEN <<>> ELSE Head(seqs) \o Flatten(Tail(seqs))
RecordsRead == Flatten(rd_batches) \o rd_buf
DataRow(i) == rd_file[i + 1]
CeilDiv(a, b) == (a + b - 1) \div b

\* C15: CSV batching.  For an input of R data rows and a chunk size C >= 1
\* the reader, once exhausted, has emitted ceil(R/C) batches, every batch but
\* the last has exactly C rows, the last has the remaining rows, and the
\* batches one after the other are the records of the input rows in input
\* order; an empty file gives no batch.
C15_Batching ==
    rd_pc = "done" =>
        LET R == IF rd_file = <<>> THEN 0 ELSE Len(rd_file) - 1
            C == rd_chunksize
            B == Len(rd_batches)
        IN  /\ B = CeilDiv(R, C)
            /\ \A b \in 1..(B - 1) : Len(rd_batches[b]) = C
            /\ B > 0 => Len(rd_batches[B]) = R - C * (B - 1)
            /\ \A b \in 1..B : \A k \in 1..Len(rd_batches[b]) :
                  rd_batches[b][k] =
                      _row_to_record(PadRow(DataRow((b - 1) * C + k), rd_header), rd_header)

\* three rows read with chunk size 2: a full batch and a last batch of one row
C15_Witness ==
    /\ rd_pc = "done"
    /\ Len(rd_file) = 4
    /\ rd_chunksize = 2
    /\ Len(rd_batches) = 2
    /\ Len(rd_batches[1]) = 2
    /\ Len(rd_batches[2]) = 1

\* C16: malformed rows are never fatal.  Every data row the reader has
\* consumed, whatever its length, has given one record, and the record has a
\* value for every header column, for the six canonical fields and for the
\* catch-all address; the columns a short row has no cell for are empty.
C16_RowsNeverFatal ==
    rd_pos >= 1 =>
        /\ Len(RecordsRead) = rd_pos - 1
        /\ \A i \in 1..Len(RecordsRead) :
              /\ DOMAIN RecordsRead[i] =
                    {strip(rd_file[1][j]) : j \in DOMAIN rd_file[1]} \cup Range(TARGET_COLS)
              /\ \A j \in (Len(DataRow(i)) + 1)..Len(rd_header) :
                    rd_header[j] # S_address => RecordsRead[i][rd_header[j]] = <<>>

\* the reader has made records of a row shorter and of a row longer than the
\* header
C16_Witness ==
    /\ rd_pc = "done"
    /\ \E i \in 1..Len(RecordsRead) : Len(DataRow(i)) < Len(rd_header)
    /\ \E i \in 1..Len(RecordsRead) : Len(DataRow(i)) > Len(rd_header)

\* the cells of a data row that may reach the catch-all: the column is
\* neither the address column nor named by a contact keyword, and the value
\* matches neither the email nor the phone pattern; none at all unless the
\* header has an address column or has no canonical field column
MayConcatenate(i) ==
    IF has_address_col(rd_header) \/ ~has_any_target(rd_header)
    THEN {j \in 1..Min(Len(DataRow(i)), Len(rd_header)) :
            /\ rd_header[j] # S_address
            /\ ~CONTACT_COL_RE(rd_header[j])
            /\ ~EMAIL_RE(strip(DataRow(i)[j]))
            /\ ~PHONE_RE(strip(DataRow(i)[j]))}
    ELSE {}
CellsOf(i, J) == [k \in 1..Cardinality(J) |-> strip(DataRow(i)[NthOf(J, k)])]
AddressCell(i) ==
    IF \E j \in 1..Min(Len(DataRow(i)), Len(rd_header)) : rd_header[j] = S_address
    THEN strip(DataRow(i)[CHOOSE j \in DOMAIN rd_header : rd_header[j] = S_address])
    ELSE <<>>

\* C17: PII exclusion from the catch-all.  The catch-all of every record is
\* the value of the address column followed by, in column order, cells none
\* of which comes from a column named by a contact/name keyword or matches
\* the email or the phone pattern; and it is the value of the address column
\* alone unless the header has an address column or no canonical field column.
C17_NoContactInCatchAll ==
    \A i \in 1..Len(RecordsRead) :
        \E J \in SUBSET MayConcatenate(i) :
            RecordsRead[i][S_address] = WithTail(AddressCell(i), Join(CellsOf(i, J), CommaSpace))

\* a record whose catch-all took the notes cell of its row, while the cell of
\* the phone column (a number with letters) stayed out
C17_Witness ==
    \E i \in 1..Len(RecordsRead) :
        /\ rd_header = <<S_address, S_phone, S_notes>>
        /\ Len(DataRow(i)) = 3
        /\ PHONE_RE(DataRow(i)[2]) /\ Addressy(DataRow(i)[2])
        /\ RecordsRead[i][S_address] = DataRow(i)[1] \o CommaSpace \o strip(DataRow(i)[3])

\* C18: join barrier.  Within a batch no record is updated with an
\* extraction result until every queued (row id, address) item has been
\* resolved and all workers have finished: while the applying loop is under
\* way every queued row id has its entry in the result map, every task handed
\* to the pool is complete and every pool thread is idle, so that the loop
\* runs in the main thread alone after the parallel region.
C18_JoinBarrier ==
    (x_applied > 0 \/ x_records # <<>>) =>
        /\ x_pc = "joined"
        /\ x_collected = Len(to_parse)
        /\ \A i \in DOMAIN to_parse : to_parse[i][1] \in DOMAIN parsed_map
        /\ x_concurrency > 1 => \A i \in DOMAIN x_futures : x_futures[i] # Pending
        /\ \A w \in DOMAIN x_worker : x_worker[w] = Idle

\* two pool threads have parsed two items, the second finishing first, and
\* both records have been updated with their results
C18_Witness ==
    /\ x_concurrency = 2
    /\ Len(to_parse) = 2
    /\ x_disorder
    /\ x_applied = 2
    /\ x_records[1] # NoParsed
    /\ x_records[2] # NoParsed

\* C19: during the parallel extraction region the workers share no mutable
\* state other than the result map: no other variable, the lazily created
\* session included, is written by a worker while another worker may read or
\* write it.  That is, no pool thread is about to store a session in the
\* global while another pool thread is about to test, store or return it.
C19_NoSharedWrite ==
    \A w1 \in DOMAIN x_worker : \A w2 \in DOMAIN x_worker \ {w1} :
        ~(/\ x_worker[w1].pc = "create"
          /\ x_worker[w2].pc \in {"session", "create", "return"})

\* the cache the last call met holds only entries that validations of the
\* call's own mode and threshold leave: it is the cache of a process that has
\* run with this mode and threshold from its start
C20_FixedModeCache ==
    \A k \in DOMAIN v_call.cache_before :
        \E row \in ValRows :
            LET e == _validate_locality(row.locality, current_alpha2(row.country),
                                        v_call.validate, v_call.fuzzy_threshold,
                                        gc_cities, <<>>, EmptyCache)
            IN  k \in DOMAIN e.cache /\ e.cache[k] = v_call.cache_before[k]

\* C20: locality validation cache transparency.  In a process that validates
\* with one mode (loose or strict) and one threshold, the locality and the
\* flags a validation returns are those a validation of the same input with
\* an empty cache returns; so an unmatched locality is flagged city_not_found
\* and returned unchanged at every occurrence, also after another spelling of
\* the same normalized key.
C20_CacheTransparent ==
    (/\ v_call.active
     /\ v_call.validate \in {"loose", "strict"}
     /\ C20_FixedModeCache) =>
        \E o \in validate_fields(v_call.row_in, v_call.alpha2, v_call.validate,
                                 v_call.fuzzy_threshold, gc_cities, EmptyCache) :
            /\ o.row.locality = v_call.row_out.locality
            /\ o.flags = v_call.flags

\* the last thing the service did leaves nothing to use: the request failed,
\* the status was not 200, or the body was no JSON, no list or object, or had
\* no value under a label that extract_from_address knows
C21_Unusable ==
    \/ q_last = None
    \/ q_last.kind = "raise"
    \/ q_last.status # 200
    \/ q_last.json \notin {"list", "dict"}
    \/ q_last.labels = NoLabels

\* C21: per-item resolution protocol.  The URL of the service is posted to at
\* most once per item; the alternate URL at most once and only after the
\* first answer was a 400 or a 404; the resolution ends with a result, which
\* on a failed request, a bad status or an unusable or empty response is the
\* result of the local heuristic.
C21_ResolutionProtocol ==
    /\ Cardinality({i \in DOMAIN q_calls : q_calls[i] = q_url}) <= 1
    /\ Len(q_calls) <= 2
    /\ Len(q_calls) = 2 => (q_primary.kind = "http" /\ q_primary.status \in {400, 404})
    /\ (q_pc = "done" /\ strip(q_address) # <<>> /\ C21_Unusable) =>
            q_result = Relabel(_fallback_regex(strip(q_address)))

\* ---------------------------------------------------------------------------
\* C22: promotion
\* ---------------------------------------------------------------------------

\* the row RowClean hands to _promote_address_like
C22_Cleaned ==
    [r_in EXCEPT !.street = clean_value(@), !.district = clean_value(@),
                 !.locality = clean_value(@), !.region = clean_value(@),
                 !.country = clean_value(@), !.zip = clean_value(@),
                 !.address = clean_value(@)]

\* "looks like a full address" as stated: two comma-separated segments or more,
\* or a digit together with a street-type keyword
C22_FullAddress(s) == Count(s, ",") + 1 >= 2 \/ (RE_HAS_DIGIT(s) /\ RE_STREET_WORD(s))

\* the special case: the locality looks like a postal code and the street has
\* a comma or a digit
C22_Special(row) ==
    /\ strip(row.street) # <<>>
    /\ RE_ZIP_PURE_DIG(strip(row.locality)) \/ RE_ZIP_TOKEN(strip(row.locality))
    /\ Count(strip(row.street), ",") >= 1 \/ RE_HAS_DIGIT(strip(row.street))

\* the same with two commas (three segments) or more
C22_TwoCommas(s) == Count(s, ",") >= 2 \/ (RE_HAS_DIGIT(s) /\ RE_STREET_WORD(s))

C22_Hit(n, row) == row[PromoteKeys[n]] # None /\ C22_TwoCommas(row[PromoteKeys[n]])

C22_ExpectedCommas(row) ==
    IF row.address # None THEN row
    ELSE IF \A n \in DOMAIN PromoteKeys : ~C22_Hit(n, row) THEN row
    ELSE LET n == CHOOSE k \in DOMAIN PromoteKeys :
                      C22_Hit(k, row) /\ \A j \in 1..(k - 1) : ~C22_Hit(j, row)
         IN  [row EXCEPT !.address = row[PromoteKeys[n]], ![PromoteKeys[n]] = None]

C22_Stated(n, row) == row[PromoteKeys[n]] # None /\ C22_FullAddress(row[PromoteKeys[n]])

C22_Expected(row) ==
    IF row.address # None THEN row
    ELSE IF \A n \in DOMAIN PromoteKeys : ~C22_Stated(n, row) THEN row
    ELSE LET n == CHOOSE k \in DOMAIN PromoteKeys :
                      C22_Stated(k, row) /\ \A j \in 1..(k - 1) : ~C22_Stated(j, row)
         IN  [row EXCEPT !.address = row[PromoteKeys[n]], ![PromoteKeys[n]] = None]

\* C22 (amended): the same with "at least 2 commas" in the place of "at least
\* 2 comma-separated segments": after the promotion the row is the cleaned row
\* with the first of region, street, district, locality that has two commas or
\* a digit with a street keyword moved to the catch-all and blanked
C22_PromotionCommas ==
    (r_pc = "repair" /\ ~(C22_Cleaned.address = None /\ C22_Special(C22_Cleaned))) =>
        r_row = C22_ExpectedCommas(C22_Cleaned)

\* a promoted row in which a later field of the order qualifies as well and a
\* one-comma value precedes the promoted field
C22_Witness ==
    /\ r_pc = "repair"
    /\ C22_Cleaned.address = None /\ ~C22_Special(C22_Cleaned)
    /\ r_row.address = C22_Cleaned.street /\ r_row.street = None
    /\ C22_Hit(4, C22_Cleaned)
    /\ Count(C22_Cleaned.region, ",") = 1 /\ r_row.region = C22_Cleaned.region

\* C22: after the promotion of a row (catch-all empty, special case not
\* applying) the first of region, street, district, locality whose value has
\* at least 2 comma-separated segments, or a digit with a street keyword, has
\* been moved to the catch-all and blanked and nothing else has changed; a row
\* with a catch-all is unchanged
C22_Promotion ==
    (r_pc = "repair" /\ ~(C22_Cleaned.address = None /\ C22_Special(C22_Cleaned))) =>
        r_row = C22_Expected(C22_Cleaned)

\* ---------------------------------------------------------------------------
\* C23: the district of a repaired row
\* ---------------------------------------------------------------------------

\* the row on entry to _repair_misaligned_row
C23_Entry == _promote_address_like(C22_Cleaned)

\* the district of the entry row is now the country and the district is blank
C23_Moved ==
    /\ C23_Entry.district # None
    /\ r_row.country = C23_Entry.district
    /\ r_row.district = None

C23_Resolves(s) == s # None /\ lookup(s) # NoCountry

\* C23 (amended): for a row with a catch-all the district is moved into the
\* country exactly when the district resolves as a country and the country is
\* empty once it has been checked: empty on entry, or cleared because it does
\* not resolve; a row whose country resolves keeps its district
C23_DistrictAfterCheck ==
    (r_pc = "extract" /\ C23_Entry.address # None) =>
        /\ C23_Moved <=> (C23_Resolves(C23_Entry.district) /\ ~C23_Resolves(C23_Entry.country))
        /\ ~C23_Moved => r_row.district \in {C23_Entry.district, None}

\* a district moved into the country of a row whose country was not empty
C23_Witness ==
    /\ r_pc = "extract"
    /\ C23_Entry.address # None
    /\ C23_Entry.country # None
    /\ C23_Moved

\* C23: for a row with a catch-all the district is moved into the country (and
\* blanked) exactly when the district alone resolves as a country and the
\* row's country is empty, and never when the country was non-empty on entry
C23_DistrictPromotion ==
    (r_pc = "extract" /\ C23_Entry.address # None) =>
        /\ C23_Moved <=> (C23_Resolves(C23_Entry.district) /\ C23_Entry.country = None)
        /\ C23_Entry.country # None => ~C23_Moved

\* ---------------------------------------------------------------------------
\* C24: zip normalization
\* ---------------------------------------------------------------------------

\* the row RowNormalize starts from: the row after the parsed result was applied
C24_Before ==
    IF r_cfg.mode \in JobModes \/ r_cfg.street_from_address \/ r_cfg.libpostal_always
    THEN ApplyParsed(r_applied.before, r_applied.parsed, r_cfg.mode, r_cfg.street_from_address)
    ELSE r_applied.before

\* the alphanumeric tokens of z: its maximal runs of letters and digits
C24_TokenStarts(z) == {i \in DOMAIN z : IsAlnum(z[i]) /\ (i = 1 \/ ~IsAlnum(z[i - 1]))}
C24_TokenEnd(z, i) ==
    CHOOSE j \in i..Len(z) : /\ \A k \in i..j : IsAlnum(z[k])
                             /\ (j = Len(z) \/ ~IsAlnum(z[j + 1]))
C24_Token(z, i) == SubSeq(z, i, C24_TokenEnd(z, i))
C24_Numeric(z) ==
    {i \in C24_TokenStarts(z) : /\ \A k \in DOMAIN C24_Token(z, i) : IsDigit(C24_Token(z, i)[k])
                                /\ Len(C24_Token(z, i)) \in 4..6}
C24_Generic(z) ==
    {i \in C24_TokenStarts(z) : /\ \E k \in DOMAIN C24_Token(z, i) : IsDigit(C24_Token(z, i)[k])
                                /\ Len(C24_Token(z, i)) \in 3..10}
C24_Expected(z) ==
    IF C24_Numeric(z) # {} THEN C24_Token(z, MinOf(C24_Numeric(z)))
    ELSE IF C24_Generic(z) # {} THEN C24_Token(z, MinOf(C24_Generic(z)))
    ELSE None

\* C24: the normalized zip is the first purely numeric token of 4 to 6 digits
\* of the uppercased value, otherwise its first alphanumeric token of 3 to 10
\* characters with a digit, wherever the token is; otherwise it is cleared
C24_ZipTokens ==
    (r_pc = "validate" /\ ~_is_empty(C24_Before.zip)) =>
        r_row.zip = C24_Expected(upper(strip(C24_Before.zip)))

\* ---------------------------------------------------------------------------
\* C25: the fuzzy repair of the region
\* ---------------------------------------------------------------------------

C25_Whitelist == IF v_call.alpha2 # None THEN region_lists_by_country(v_call.alpha2) ELSE <<>>
C25_Key == _norm_key(v_call.row_in.region)

\* the whitelist keys with the highest score of the locality scorer
C25_Best ==
    {c \in WhitelistKeys(C25_Whitelist) :
        \A d \in WhitelistKeys(C25_Whitelist) : Score(d, C25_Key) <= Score(c, C25_Key)}

\* C25: in loose mode a region that misses the whitelist is replaced with the
\* whitelist entry that scores best under the scorer of the locality (100,
\* 92, 88, otherwise 85 - 3 * length difference floored at 0) iff that score
\* reaches the threshold; otherwise it is flagged region_not_in_whitelist and
\* left as it is
C25_RegionSameScorer ==
    (/\ v_call.active /\ v_call.validate = "loose"
     /\ v_call.row_in.region # None
     /\ C25_Whitelist # <<>>
     /\ C25_Key \notin WhitelistKeys(C25_Whitelist)) =>
        IF \E c \in C25_Best : Score(c, C25_Key) >= v_call.fuzzy_threshold
        THEN /\ v_call.row_out.region \in {Orig(C25_Whitelist, c) : c \in C25_Best}
             /\ ~InSeq("region_not_in_whitelist", v_call.flags)
        ELSE /\ v_call.row_out.region = v_call.row_in.region
             /\ InSeq("region_not_in_whitelist", v_call.flags)

\* ---------------------------------------------------------------------------
\* C26: the synthetic address
\* ---------------------------------------------------------------------------

\* the non-empty canonical fields of the row in canonical order
C26_Canonical(row) ==
    NonEmpty(<<strip(row.street), strip(row.district), strip(row.locality),
               strip(row.region), strip(row.country), strip(row.zip)>>)

\* C26: with the always-extract policy on and an empty catch-all, the address
\* sent to extraction is the row's non-empty canonical fields joined in the
\* order street, district, locality, region, country, zip
C26_SyntheticAddress ==
    (/\ r_pc = "normalize"
     /\ r_cfg.libpostal_always
     /\ strip(r_applied.before.address) = <<>>) =>
        AddressOf(r_applied.before, r_cfg.libpostal_always)
            = Join(C26_Canonical(r_applied.before), CommaSpace)

\* ---------------------------------------------------------------------------
\* C27: the merge of the rule set
\* ---------------------------------------------------------------------------

\* the sources merged so far, in order
C27_Sources ==
    SubSeq(m_profiles, 1, m_next - 1) \o (IF m_pc = "done" THEN <<m_user_rules>> ELSE <<>>)

\* a map of maps merged key by key at both levels
C27_Nested(old, new) ==
    [c \in DOMAIN old \cup DOMAIN new |->
        IF c \in DOMAIN old /\ c \in DOMAIN new THEN new[c] @@ old[c]
        ELSE IF c \in DOMAIN new THEN new[c] ELSE old[c]]

\* the merge as stated: scalar overwritten, list appended, map merged at
\* every nesting level
C27_Deep(merged, data) ==
    [Update(merged, data) EXCEPT
        !.locality_aliases_by_country =
            C27_Nested(merged.locality_aliases_by_country, data.locality_aliases_by_country)]

RECURSIVE C27_Fold(_)
C27_Fold(sources) ==
    IF sources = <<>> THEN EmptyDoc
    ELSE C27_Deep(C27_Fold(SubSeq(sources, 1, Len(sources) - 1)), sources[Len(sources)])

\* C27: merging the sources in order (profiles, then user rules), a later
\* scalar overwrites, a later list is appended and a later map is merged key
\* by key at every nesting level: an earlier entry of a nested map survives
\* unless the later source defines that same entry
C27_MergeEveryLevel ==
    prof = C27_Fold(C27_Sources)

\* ---------------------------------------------------------------------------
\* C28: the sampler
\* ---------------------------------------------------------------------------

\* the examples of one category in the document of a column
C28_OfType(col, cat) == SelectSeq(s_doc[col], LAMBDA it : it.type = cat)

\* seq is pool restricted to some positions that include the first k
C28_Selects(seq, pool, k) ==
    \E P \in SUBSET (1..Len(pool)) :
        /\ 1..k \subseteq P
        /\ Len(seq) = Cardinality(P)
        /\ \A n \in 1..Len(seq) :
              seq[n] = pool[CHOOSE p \in P : Cardinality({q \in P : q < p}) = n - 1]

C28_PrimaryTotal(col) ==
    Cardinality({<<cat, n>> \in Range(CATEGORIES) \X (1..4) : n <= Len(samples[col][cat])})

\* C28: after any sequence of collect_sample calls the samples document holds
\* at most 20 examples per column; for each category it includes the first
\* min(4, number captured) examples of the category, and examples of the
\* captured remainder are added only while the column has fewer than 20
C28_Sampler ==
    (s_pc = "flushed" /\ s_doc # NoFile) =>
        \A col \in Range(COLUMNS) :
            /\ Len(s_doc[col]) <= 20
            /\ \A cat \in Range(CATEGORIES) :
                  C28_Selects(C28_OfType(col, cat), samples[col][cat],
                              Min(4, Len(samples[col][cat])))
            /\ Len(s_doc[col]) > C28_PrimaryTotal(col) => C28_PrimaryTotal(col) < 20

\* a document with 20 examples of a column, two of them from the remainder of
\* a category, while a captured example of another category is left out
C28_Witness ==
    /\ s_pc = "flushed" /\ s_doc # NoFile
    /\ Len(s_doc[s_column]) = 20
    /\ \E cat \in Range(CATEGORIES) : Len(C28_OfType(s_column, cat)) = 6
    /\ \E cat \in Range(CATEGORIES) :
          Len(samples[s_column][cat]) > Len(C28_OfType(s_column, cat))

\* ---------------------------------------------------------------------------
\* C29: the counters of the report
\* ---------------------------------------------------------------------------

\* C29: after any sequence of update_report calls made by the pipeline, for
\* every canonical field total_changed = clean + normalize + extracted +
\* removed + fuzzy_fixed, and no counter has decreased in the last call
C29_CounterConsistency ==
    \A field \in Range(FIELDS) :
        /\ report_data[field].total_changed
              = report_data[field].clean + report_data[field].normalize
                + report_data[field].extracted + report_data[field].removed
                + report_data[field].fuzzy_fixed
        /\ \A k \in CounterKeys : report_data[field][k] >= rp_before[field][k]

\* a field counted as unchanged once and as changed in two categories
C29_Witness ==
    /\ report_data["locality"].unchanged = 1
    /\ report_data["locality"].fuzzy_fixed = 1
    /\ report_data["locality"].normalize = 1
    /\ report_data["locality"].total_changed = 2

\* ---------------------------------------------------------------------------
\* C30: the row after the repair
\* ---------------------------------------------------------------------------

\* C30: for every row with a catch-all, after _repair_misaligned_row the
\* country is empty or resolves in the country lookup and the region has no
\* digit
C30_RepairPostcondition ==
    (r_pc = "extract" /\ C23_Entry.address # None) =>
        /\ r_row.country = None \/ lookup(r_row.country) # NoCountry
        /\ ~RE_HAS_DIGIT(r_row.region)

\* a repaired row whose country did not resolve and whose region had a digit
C30_Witness ==
    /\ r_pc = "extract"
    /\ C23_Entry.address # None
    /\ C23_Entry.country # None /\ lookup(C23_Entry.country) = NoCountry
    /\ RE_HAS_DIGIT(C23_Entry.region)

====
